---- MODULE Spec2Model ----
(***************************************************************************)
(* A model of the runtime core of the Permafrost engine: the event bus     *)
(* (src/src/event.c), the animation sampler (src/src/anim/anim.c) and the  *)
(* game state with its double-buffered render workspaces                   *)
(* (src/src/game/game.c), with the scene loader (src/src/scene.c) and the  *)
(* depth pass of the renderer (src/src/render/render_gl_shadows.c).        *)
(*                                                                         *)
(* The C functions are modelled as operators that take the program state   *)
(* as one record w (the "world") and return the state after the call, so   *)
(* that a function can call another one exactly as the C code does.  The   *)
(* actions apply one top-level call to the variables.                      *)
(***************************************************************************)
EXTENDS Integers, Sequences, FiniteSets, TLC

VARIABLES
    s_gs,                  \* game.c: static struct gamestate s_gs
    entities,              \* the entity objects (flags, anim_ctx, memory)
    s_event_handler_table, \* event.c: s_event_handler_table
    s_event_queue,         \* event.c: s_event_queue
    ticks,                 \* SDL_GetTicks(), in milliseconds
    registered,            \* ghost: the Register calls not yet undone
    reg_stamp,             \* ghost: number of Register calls made so far
    paused_at,             \* ghost: the tick at which G_RUNNING was last left
    sim_pc,                \* position of the simulation thread in its tick
    r_pc, r_ws, r_cmd,     \* the render thread: position, workspace, command
    s_depth_pass_active,   \* render_gl_shadows.c: s_depth_pass_active
    aborted,               \* an assert() has failed: the process is gone
    last_call,             \* the top-level call made by the last step
    hlog,                  \* handler invocations made by the last step
    dlog,                  \* events handed to e_handle_event by the last step
    enq,                   \* events pushed on the queue by the last step
    rlog                   \* event arguments passed to S_Release by the last step

vars == <<s_gs, entities, s_event_handler_table, s_event_queue, ticks,
          registered, reg_stamp, paused_at, sim_pc, r_pc, r_ws, r_cmd,
          s_depth_pass_active, aborted, last_call, hlog, dlog, enq, rlog>>

(***************************************************************************)
(* Bounds of the model.                                                    *)
(***************************************************************************)
NumEnts == 1
MaxQueue == 2
MaxRegs == 2
MaxTicks == 700
MaxHandlerNotifies == 1
MaxFactions == 3           \* MAX_FACTIONS, scaled down

Ents == 1..NumEnts

(***************************************************************************)
(* Program constants.                                                      *)
(***************************************************************************)
\* Unsigned 32-bit arithmetic is kept modular, on a word scaled down to 15
\* bits so that a 64-bit key (two words) stays a 31-bit integer.
UINT32_MOD == 32768
GLOBAL_ID == UINT32_MOD - 1

\* enum simstate: single bits, tested with elem->simmask & ss
G_RUNNING == 1
G_PAUSED_FULL == 2
G_PAUSED_UI_RUNNING == 4
SimStates == {G_RUNNING, G_PAUSED_FULL, G_PAUSED_UI_RUNNING}
SIMMASK_ALL == 7

\* enum eventtype: the engine events the core posts, and two other events
EVENT_UPDATE_START == 1
EVENT_UPDATE_UI == 2
EVENT_UPDATE_END == 3
EVENT_RENDER_3D == 4
EVENT_RENDER_UI == 5
EVENT_NEW_GAME == 6
EVENT_GAME_SIMSTATE_CHANGED == 7
EVENT_ANIM_FINISHED == 8
EVENT_ANIM_CYCLE_FINISHED == 9
EVENT_USER_A == 10
EVENT_USER_B == 11

ES_ENGINE == "ES_ENGINE"
ES_SCRIPT == "ES_SCRIPT"

HANDLER_TYPE_ENGINE == "HANDLER_TYPE_ENGINE"
HANDLER_TYPE_SCRIPT == "HANDLER_TYPE_SCRIPT"

ANIM_MODE_LOOP == "ANIM_MODE_LOOP"
ANIM_MODE_ONCE == "ANIM_MODE_ONCE"
ANIM_MODE_ONCE_HIDE_ON_FINISH == "ANIM_MODE_ONCE_HIDE_ON_FINISH"

ENTITY_FLAG_ANIMATED == "ENTITY_FLAG_ANIMATED"
ENTITY_FLAG_COLLISION == "ENTITY_FLAG_COLLISION"
ENTITY_FLAG_SELECTABLE == "ENTITY_FLAG_SELECTABLE"
ENTITY_FLAG_STATIC == "ENTITY_FLAG_STATIC"
ENTITY_FLAG_COMBATABLE == "ENTITY_FLAG_COMBATABLE"
ENTITY_FLAG_INVISIBLE == "ENTITY_FLAG_INVISIBLE"
ENTITY_FLAG_ZOMBIE == "ENTITY_FLAG_ZOMBIE"

(***************************************************************************)
(* Helpers.                                                                *)
(***************************************************************************)
RECURSIVE BitAnd(_, _)
BitAnd(a, b) ==
    IF a = 0 \/ b = 0 THEN 0
    ELSE (IF a % 2 = 1 /\ b % 2 = 1 THEN 1 ELSE 0) + 2 * BitAnd(a \div 2, b \div 2)

RECURSIVE BitOr(_, _)
BitOr(a, b) ==
    IF a = 0 THEN b
    ELSE IF b = 0 THEN a
    ELSE (IF a % 2 = 1 \/ b % 2 = 1 THEN 1 ELSE 0) + 2 * BitOr(a \div 2, b \div 2)

RECURSIVE SetToSortedSeq(_)
SetToSortedSeq(S) ==
    IF S = {} THEN <<>>
    ELSE LET m == CHOOSE x \in S : \A y \in S : x <= y
         IN <<m>> \o SetToSortedSeq(S \ {m})

Range(s) == {s[i] : i \in 1..Len(s)}

IsPrefix(p, s) == Len(p) <= Len(s) /\ SubSeq(s, 1, Len(p)) = p

\* The room left in the arena of the simulation workspace, in arguments:
\* no limit that the frame can reach, or n more arguments
Unlimited == [limited |-> FALSE, slots |-> 0]

Limited(n) == [limited |-> TRUE, slots |-> n]

\* The program state as one record.
World ==
    [gs |-> s_gs, ent |-> entities, tbl |-> s_event_handler_table,
     q |-> s_event_queue, ticks |-> ticks, aborted |-> aborted,
     hlog |-> <<>>, dlog |-> <<>>, enq |-> <<>>, rlog |-> <<>>,
     budget |-> MaxHandlerNotifies,
     room |-> Unlimited]

\* The variables a call can change take the values of the world w.
Apply(w) ==
    /\ s_gs' = w.gs
    /\ entities' = w.ent
    /\ s_event_handler_table' = w.tbl
    /\ s_event_queue' = w.q
    /\ aborted' = w.aborted
    /\ hlog' = w.hlog
    /\ dlog' = w.dlog
    /\ enq' = w.enq
    /\ rlog' = w.rlog


(***************************************************************************)
(* Render workspaces (render_ctrl, modelled from the specification): a     *)
(* workspace is a FIFO of commands and a bump-allocated arena.             *)
(***************************************************************************)
EmptyWS == [commands |-> <<>>, arena |-> 0]

\* game.c G_GetSimWS / G_GetRenderWS, as workspace indices
G_GetSimWS(gs) == gs.curr_ws_idx

G_GetRenderWS(gs) == (gs.curr_ws_idx + 1) % 2

\* A command argument as written at the call site: either R_PushArg(ptr, size)
\* or a pointer handed over as it is.
PushArg(data) == [via |-> "R_PushArg", mem |-> "copy", ent |-> 0, data |-> data]

RawArg(mem, e, data) == [via |-> "raw", mem |-> mem, ent |-> e, data |-> data]

Cmd(func, args) == [func |-> func, args |-> args]

\* R_PushArg: copies the bytes into the arena of the simulation workspace and
\* returns the copy's address (workspace, slot).
R_PushArg(gs, slot) ==
    [kind |-> "arena", ws |-> G_GetSimWS(gs), slot |-> slot, mem |-> "arena", ent |-> 0]

RECURSIVE R_EvalArgs(_, _, _)
R_EvalArgs(gs, args, slot) ==
    IF args = <<>> THEN <<>>
    ELSE LET a == Head(args) IN
         IF a.via = "R_PushArg"
         THEN <<[R_PushArg(gs, slot) EXCEPT !.ent = a.ent] @@ [data |-> a.data]>>
                  \o R_EvalArgs(gs, Tail(args), slot + 1)
         ELSE <<[kind |-> "raw", ws |-> -1, slot |-> -1, mem |-> a.mem,
                 ent |-> a.ent, data |-> a.data]>>
                  \o R_EvalArgs(gs, Tail(args), slot)

NumPushed(args) == Len(SelectSeq(args, LAMBDA a : a.via = "R_PushArg"))

\* R_PushCmd: the arguments are evaluated, then the command is appended to the
\* queue of the simulation workspace.  An argument that does not fit in the
\* arena is a hard failure: the program stops at that push.
R_PushCmd(w, cmd) ==
    LET i == G_GetSimWS(w.gs)
        old == w.gs.ws[i]
        new == [commands |-> Append(old.commands,
                                    [func |-> cmd.func,
                                     args |-> R_EvalArgs(w.gs, cmd.args, old.arena)]),
                arena |-> old.arena + NumPushed(cmd.args)]
    IN IF w.room.limited /\ NumPushed(cmd.args) > w.room.slots
       THEN [w EXCEPT !.aborted = TRUE]
       ELSE [w EXCEPT !.gs.ws[i] = new,
                      !.room.slots = IF w.room.limited
                                     THEN @ - NumPushed(cmd.args) ELSE @]

RECURSIVE R_PushCmds(_, _)
R_PushCmds(w, cmds) ==
    IF cmds = <<>> \/ w.aborted THEN w
    ELSE R_PushCmds(R_PushCmd(w, Head(cmds)), Tail(cmds))

\* R_ClearWS: resets (does not free) the arena and the queue.
R_ClearWS(ws) == [commands |-> <<>>, arena |-> 0]

(***************************************************************************)
(* anim.c                                                                  *)
(***************************************************************************)
\* The clips of an entity's anim_private data, in file order.
AnimClips == <<[name |-> "idle", num_frames |-> 2],
               [name |-> "attack", num_frames |-> 3]>>

ClipNames == {"idle", "attack"}

NULL == 0

\* a_clip_for_name: the first clip with that name (as an index), or NULL
a_clip_for_name(name) ==
    LET hits == {i \in 1..Len(AnimClips) : AnimClips[i].name = name}
    IN IF hits = {} THEN NULL ELSE CHOOSE i \in hits : \A j \in hits : i <= j

\* queue_event_push on s_event_queue
queue_event_push(w, e) ==
    [w EXCEPT !.q = Append(@, e), !.enq = Append(@, e)]

Event(type, arg, source, receiver_id) ==
    [type |-> type, arg |-> arg, source |-> source, receiver_id |-> receiver_id]

E_Global_Notify(w, event, event_arg, source) ==
    queue_event_push(w, Event(event, event_arg, source, GLOBAL_ID))

E_Entity_Notify(w, event, ent_uid, event_arg, source) ==
    queue_event_push(w, Event(event, event_arg, source, ent_uid))

\* A_SetActiveClip falling back to the idle clip for a name it does not find
A_SetActiveClip_FallBackToIdle(w, e, name, mode, key_fps) ==
    LET found == a_clip_for_name(name)
        clip == IF found = NULL THEN w.ent[e].ctx.idle ELSE found
    IN [w EXCEPT !.ent[e].ctx =
           [@ EXCEPT !.active = clip, !.mode = mode, !.key_fps = key_fps,
                     !.curr_frame = 0, !.curr_frame_start_ticks = w.ticks]]

A_SetActiveClip(w, e, name, mode, key_fps) ==
    LET clip == a_clip_for_name(name) IN
    IF clip = NULL THEN [w EXCEPT !.aborted = TRUE]
    ELSE [w EXCEPT !.ent[e].ctx =
             [@ EXCEPT !.active = clip, !.mode = mode, !.key_fps = key_fps,
                       !.curr_frame = 0, !.curr_frame_start_ticks = w.ticks]]

A_InitCtx(w, e, idle_clip, key_fps) ==
    LET idle == a_clip_for_name(idle_clip) IN
    IF idle = NULL THEN [w EXCEPT !.aborted = TRUE]
    ELSE A_SetActiveClip([w EXCEPT !.ent[e].ctx.idle = idle],
                         e, idle_clip, ANIM_MODE_LOOP, key_fps)

\* elapsed_secs >= frame_period_secs
FramePeriodElapsed_NotStrict(curr_ticks, start_ticks, key_fps) ==
    ((curr_ticks - start_ticks) % UINT32_MOD) * key_fps >= 1000

\* The frame period taken as the integer quotient 1 / key_fps, which is 0
FramePeriodElapsed_IntegerPeriod(curr_ticks, start_ticks, key_fps) ==
    ((curr_ticks - start_ticks) % UINT32_MOD) > 0

\* elapsed_secs > frame_period_secs, that is
\* (curr_ticks - start) / 1000.0f > 1.0f / key_fps, on unsigned 32-bit ticks
FramePeriodElapsed(curr_ticks, start_ticks, key_fps) ==
    ((curr_ticks - start_ticks) % UINT32_MOD) * key_fps > 1000

\* The hide of once-then-hide mode applied in once mode as well
A_Update_HideOnOnce(w, e) ==
    LET ctx == w.ent[e].ctx
        curr_ticks == w.ticks
    IN
    IF ~FramePeriodElapsed(curr_ticks, ctx.curr_frame_start_ticks, ctx.key_fps)
    THEN w
    ELSE
      LET frame == (ctx.curr_frame + 1) % AnimClips[ctx.active].num_frames
          w1 == [w EXCEPT !.ent[e].ctx.curr_frame = frame,
                          !.ent[e].ctx.curr_frame_start_ticks = curr_ticks]
      IN
      IF frame # 0 THEN w1
      ELSE
        LET w2 == E_Entity_Notify(w1, EVENT_ANIM_CYCLE_FINISHED, e, NULL, ES_ENGINE)
            w3 == IF ctx.mode \in {ANIM_MODE_ONCE_HIDE_ON_FINISH, ANIM_MODE_ONCE}
                  THEN [w2 EXCEPT !.ent[e].flags = @ \cup {ENTITY_FLAG_INVISIBLE}]
                  ELSE w2
        IN
        IF ctx.mode \in {ANIM_MODE_ONCE_HIDE_ON_FINISH, ANIM_MODE_ONCE}
        THEN A_SetActiveClip(
                 E_Entity_Notify(w3, EVENT_ANIM_FINISHED, e, NULL, ES_ENGINE),
                 e, AnimClips[ctx.idle].name, ANIM_MODE_LOOP, ctx.key_fps)
        ELSE w3

\* A_Update stepping the frame index without wrapping it at the clip's end
A_Update_NoWrap(w, e) ==
    LET ctx == w.ent[e].ctx
        curr_ticks == w.ticks
    IN
    IF ~FramePeriodElapsed(curr_ticks, ctx.curr_frame_start_ticks, ctx.key_fps)
    THEN w
    ELSE [w EXCEPT !.ent[e].ctx.curr_frame = ctx.curr_frame + 1,
                   !.ent[e].ctx.curr_frame_start_ticks = curr_ticks]

A_Update(w, e) ==
    LET ctx == w.ent[e].ctx
        curr_ticks == w.ticks
    IN
    IF ~FramePeriodElapsed(curr_ticks, ctx.curr_frame_start_ticks, ctx.key_fps)
    THEN w
    ELSE
      LET frame == (ctx.curr_frame + 1) % AnimClips[ctx.active].num_frames
          w1 == [w EXCEPT !.ent[e].ctx.curr_frame = frame,
                          !.ent[e].ctx.curr_frame_start_ticks = curr_ticks]
      IN
      IF frame # 0 THEN w1
      ELSE
        LET w2 == E_Entity_Notify(w1, EVENT_ANIM_CYCLE_FINISHED, e, NULL, ES_ENGINE)
            w3 == IF ctx.mode = ANIM_MODE_ONCE_HIDE_ON_FINISH
                  THEN [w2 EXCEPT !.ent[e].flags = @ \cup {ENTITY_FLAG_INVISIBLE}]
                  ELSE w2
        IN
        IF ctx.mode \in {ANIM_MODE_ONCE_HIDE_ON_FINISH, ANIM_MODE_ONCE}
        THEN A_SetActiveClip(
                 E_Entity_Notify(w3, EVENT_ANIM_FINISHED, e, NULL, ES_ENGINE),
                 e, AnimClips[ctx.idle].name, ANIM_MODE_LOOP, ctx.key_fps)
        ELSE w3

A_AddTimeDelta(w, e, dt) ==
    [w EXCEPT !.ent[e].ctx.curr_frame_start_ticks = (@ + dt) % UINT32_MOD]

(***************************************************************************)
(* game.c: simulation state                                                *)
(***************************************************************************)
G_GetSimState(w) == w.gs.ss

RECURSIVE AddTimeDeltaAll(_, _, _)
AddTimeDeltaAll(w, es, dt) ==
    IF es = <<>> THEN w
    ELSE AddTimeDeltaAll(
             IF ENTITY_FLAG_ANIMATED \in w.ent[Head(es)].flags
             THEN A_AddTimeDelta(w, Head(es), dt) ELSE w,
             Tail(es), dt)

\* G_SetSimState without the early return for the state already in force
G_SetSimState_NotifyAlways(w, ss) ==
    LET curr_tick == w.ticks
        w1 == IF ss = G_RUNNING
              THEN AddTimeDeltaAll(w, SetToSortedSeq(w.gs.active),
                                   (curr_tick - w.gs.ss_change_tick) % UINT32_MOD)
              ELSE w
        w2 == E_Global_Notify(w1, EVENT_GAME_SIMSTATE_CHANGED, ss, ES_ENGINE)
    IN [w2 EXCEPT !.gs.ss_change_tick = curr_tick, !.gs.ss = ss]

G_SetSimState(w, ss) ==
    IF ss = w.gs.ss THEN w
    ELSE
      LET curr_tick == w.ticks
          w1 == IF ss = G_RUNNING
                THEN AddTimeDeltaAll(w, SetToSortedSeq(w.gs.active),
                                     (curr_tick - w.gs.ss_change_tick) % UINT32_MOD)
                ELSE w
          w2 == E_Global_Notify(w1, EVENT_GAME_SIMSTATE_CHANGED, ss, ES_ENGINE)
      IN [w2 EXCEPT !.gs.ss_change_tick = curr_tick, !.gs.ss = ss]


(***************************************************************************)
(* event.c                                                                 *)
(***************************************************************************)
\* The handlers the rest of the engine registers.  What a handler does when
\* it is invoked is its own code; four kinds are enough here.
Handlers == {"h_none", "h_pause", "h_notify", "h_ui"}

handlers_equal(a, b) ==
    IF a.type # b.type THEN FALSE ELSE a.handler = b.handler

\* (((uint64_t)ent_id) << 32) | (uint64_t)event
e_key(ent_id, event) == ent_id * UINT32_MOD + event

\* vec_hd_push
vec_hd_push(vec, desc) == Append(vec, desc)

\* vec_hd_indexof: index of the first element equal to desc, or -1
vec_hd_indexof(vec, desc) ==
    LET hits == {i \in 1..Len(vec) : handlers_equal(vec[i], desc)}
    IN IF hits = {} THEN -1 ELSE CHOOSE i \in hits : \A j \in hits : i <= j

\* vec_hd_del: removes the element at idx, the others keep their order
vec_hd_del(vec, idx) ==
    [i \in 1..(Len(vec) - 1) |-> IF i < idx THEN vec[i] ELSE vec[i + 1]]

\* e_register_handler putting the new handler in front of the others
e_register_handler_PushFront(tbl, key, desc) ==
    IF key \notin DOMAIN tbl
    THEN [k \in DOMAIN tbl \cup {key} |->
              IF k = key THEN vec_hd_push(<<>>, desc) ELSE tbl[k]]
    ELSE [tbl EXCEPT ![key] = <<desc>> \o @]

e_register_handler(tbl, key, desc) ==
    IF key \notin DOMAIN tbl
    THEN [k \in DOMAIN tbl \cup {key} |->
              IF k = key THEN vec_hd_push(<<>>, desc) ELSE tbl[k]]
    ELSE [tbl EXCEPT ![key] = vec_hd_push(@, desc)]

\* e_unregister_handler deleting every descriptor equal to desc
e_unregister_handler_AllMatches(tbl, key, desc) ==
    IF key \notin DOMAIN tbl THEN [ret |-> FALSE, tbl |-> tbl]
    ELSE LET idx == vec_hd_indexof(tbl[key], desc) IN
         IF idx = -1 THEN [ret |-> FALSE, tbl |-> tbl]
         ELSE [ret |-> TRUE,
               tbl |-> [tbl EXCEPT ![key] =
                          SelectSeq(@, LAMBDA d : ~handlers_equal(d, desc))]]

\* [ret |-> the bool returned, tbl |-> the table after the call]
e_unregister_handler(tbl, key, desc) ==
    IF key \notin DOMAIN tbl THEN [ret |-> FALSE, tbl |-> tbl]
    ELSE LET idx == vec_hd_indexof(tbl[key], desc) IN
         IF idx = -1 THEN [ret |-> FALSE, tbl |-> tbl]
         ELSE [ret |-> TRUE, tbl |-> [tbl EXCEPT ![key] = vec_hd_del(@, idx)]]

\* The call elem->handler.as_function(elem->user_arg, event.arg), or
\* S_RunEventHandler for a script handler.  The call is logged with the
\* simulation state it is made in (ss) and the dispatch it belongs to (d).
RunHandler(w, elem, event) ==
    LET w1 == [w EXCEPT !.hlog = Append(@,
                   [handler |-> elem.handler, type |-> elem.type,
                    user_arg |-> elem.user_arg, simmask |-> elem.simmask,
                    event |-> event.type, receiver_id |-> event.receiver_id,
                    arg |-> event.arg, ss |-> w.gs.ss, d |-> Len(w.dlog)])]
    IN CASE elem.handler = "h_pause" -> G_SetSimState(w1, G_PAUSED_FULL)
         [] elem.handler = "h_notify" ->
                IF w1.budget > 0
                THEN E_Global_Notify([w1 EXCEPT !.budget = @ - 1],
                                     EVENT_USER_B, NULL, ES_ENGINE)
                ELSE w1
         [] elem.handler = "h_ui" ->
                R_PushCmd(w1, Cmd("UI_Render", <<PushArg("ui_vertices")>>))
         [] OTHER -> w1

RECURSIVE e_handle_loop(_, _, _, _, _)
e_handle_loop(w, vec, i, ss, event) ==
    IF i > Len(vec) THEN w
    ELSE IF BitAnd(vec[i].simmask, ss) = 0
         THEN e_handle_loop(w, vec, i + 1, ss, event)
         ELSE e_handle_loop(RunHandler(w, vec[i], event), vec, i + 1, ss, event)

\* if(event.source == ES_SCRIPT) S_Release(event.arg);
S_ReleaseArg(w, event) ==
    IF event.source = ES_SCRIPT THEN [w EXCEPT !.rlog = Append(@, event.arg)] ELSE w

e_handle_event(w, event) ==
    LET key == e_key(event.receiver_id, event.type)
        ss == G_GetSimState(w)
        w1 == [w EXCEPT !.dlog = Append(@, event)]
    IN IF key \notin DOMAIN w.tbl THEN w1
       ELSE S_ReleaseArg(e_handle_loop(w1, w.tbl[key], 1, ss, event), event)

\* while(queue_event_pop(&s_event_queue, &event)) e_handle_event(event);
RECURSIVE E_ServiceLoop(_)
E_ServiceLoop(w) ==
    IF w.q = <<>> THEN w
    ELSE E_ServiceLoop(e_handle_event([w EXCEPT !.q = Tail(@)], Head(w.q)))

\* E_ServiceQueue dispatching update-ui before the queued events
E_ServiceQueue_UIBeforeQueue(w) ==
    LET w1 == e_handle_event(w, Event(EVENT_UPDATE_START, NULL, ES_ENGINE, GLOBAL_ID))
        w2 == e_handle_event(w1, Event(EVENT_UPDATE_UI, NULL, ES_ENGINE, GLOBAL_ID))
        w3 == E_ServiceLoop(w2)
    IN e_handle_event(w3, Event(EVENT_UPDATE_END, NULL, ES_ENGINE, GLOBAL_ID))

\* E_ServiceQueue running the queue once more after update-end
E_ServiceQueue_DrainAtEnd(w) ==
    LET w1 == e_handle_event(w, Event(EVENT_UPDATE_START, NULL, ES_ENGINE, GLOBAL_ID))
        w2 == E_ServiceLoop(w1)
        w3 == e_handle_event(w2, Event(EVENT_UPDATE_UI, NULL, ES_ENGINE, GLOBAL_ID))
        w4 == e_handle_event(w3, Event(EVENT_UPDATE_END, NULL, ES_ENGINE, GLOBAL_ID))
    IN E_ServiceLoop(w4)

E_ServiceQueue(w) ==
    LET w1 == e_handle_event(w, Event(EVENT_UPDATE_START, NULL, ES_ENGINE, GLOBAL_ID))
        w2 == E_ServiceLoop(w1)
        w3 == e_handle_event(w2, Event(EVENT_UPDATE_UI, NULL, ES_ENGINE, GLOBAL_ID))
    IN e_handle_event(w3, Event(EVENT_UPDATE_END, NULL, ES_ENGINE, GLOBAL_ID))

HandlerDesc(type, handler, user_arg, simmask) ==
    [type |-> type, handler |-> handler, user_arg |-> user_arg, simmask |-> simmask]

E_Global_Register(w, event, handler, user_arg, simmask) ==
    [w EXCEPT !.tbl = e_register_handler(@, e_key(GLOBAL_ID, event),
                          HandlerDesc(HANDLER_TYPE_ENGINE, handler, user_arg, simmask))]

E_Global_Unregister(tbl, event, handler) ==
    e_unregister_handler(tbl, e_key(GLOBAL_ID, event),
                         HandlerDesc(HANDLER_TYPE_ENGINE, handler, NULL, 0))

\* E_Global_NotifyImmediate queueing the event as E_Global_Notify does
E_Global_NotifyImmediate_Queued(w, event, event_arg, source) ==
    queue_event_push(w, Event(event, event_arg, source, GLOBAL_ID))

E_Global_NotifyImmediate(w, event, event_arg, source) ==
    e_handle_event(w, Event(event, event_arg, source, GLOBAL_ID))

E_Entity_Register(w, event, ent_uid, handler, user_arg, simmask) ==
    [w EXCEPT !.tbl = e_register_handler(@, e_key(ent_uid, event),
                          HandlerDesc(HANDLER_TYPE_ENGINE, handler, user_arg, simmask))]

E_Entity_Unregister(tbl, event, ent_uid, handler) ==
    e_unregister_handler(tbl, e_key(ent_uid, event),
                         HandlerDesc(HANDLER_TYPE_ENGINE, handler, NULL, 0))


(***************************************************************************)
(* game.c: the entity registry                                             *)
(***************************************************************************)
\* [ret |-> the bool returned, w |-> the state after the call]
G_AddEntity(w, e) ==
    IF e \in w.gs.active THEN [ret |-> FALSE, w |-> w]
    ELSE LET w1 == [w EXCEPT !.gs.active = @ \cup {e}] IN
         IF ENTITY_FLAG_STATIC \in w.ent[e].flags THEN [ret |-> TRUE, w |-> w1]
         ELSE IF e \in w.gs.dynamic
              THEN [ret |-> FALSE, w |-> [w1 EXCEPT !.aborted = TRUE]]
              ELSE [ret |-> TRUE, w |-> [w1 EXCEPT !.gs.dynamic = @ \cup {e}]]

G_RemoveEntity(w, e) ==
    IF e \notin w.gs.active THEN [ret |-> FALSE, w |-> w]
    ELSE LET w1 == [w EXCEPT !.gs.active = @ \ {e}] IN
         IF ENTITY_FLAG_STATIC \in w.ent[e].flags THEN [ret |-> TRUE, w |-> w1]
         ELSE IF e \notin w.gs.dynamic
              THEN [ret |-> FALSE, w |-> [w1 EXCEPT !.aborted = TRUE]]
              ELSE [ret |-> TRUE, w |-> [w1 EXCEPT !.gs.dynamic = @ \ {e}]]

G_SafeFree(w, e) == [w EXCEPT !.gs.deleted = Append(@, e)]

\* AL_EntityFree: releases the entity's block, render_private included
AL_EntityFree(w, e) ==
    [w EXCEPT !.ent[e].mem = IF @ = "alloc" THEN "freed" ELSE "double_freed"]

\* G_Zombiefy changing the flags only, the entity left in the dynamic set
G_Zombiefy_KeepDynamic(w, e) ==
    [w EXCEPT
       !.ent[e].flags =
           (@ \ {ENTITY_FLAG_SELECTABLE, ENTITY_FLAG_COLLISION,
                 ENTITY_FLAG_COMBATABLE, ENTITY_FLAG_ANIMATED})
           \cup {ENTITY_FLAG_INVISIBLE, ENTITY_FLAG_STATIC, ENTITY_FLAG_ZOMBIE}]

\* G_Zombiefy not setting the static flag
G_Zombiefy_NotStatic(w, e) ==
    IF ENTITY_FLAG_STATIC \notin w.ent[e].flags /\ e \notin w.gs.dynamic
    THEN [w EXCEPT !.aborted = TRUE]
    ELSE [w EXCEPT
            !.gs.dynamic = IF ENTITY_FLAG_STATIC \notin w.ent[e].flags
                           THEN @ \ {e} ELSE @,
            !.ent[e].flags =
                (@ \ {ENTITY_FLAG_SELECTABLE, ENTITY_FLAG_COLLISION,
                      ENTITY_FLAG_COMBATABLE, ENTITY_FLAG_ANIMATED})
                \cup {ENTITY_FLAG_INVISIBLE, ENTITY_FLAG_ZOMBIE}]

\* G_Zombiefy: out of the dynamic set unless static, then the flags
G_Zombiefy(w, e) ==
    IF ENTITY_FLAG_STATIC \notin w.ent[e].flags /\ e \notin w.gs.dynamic
    THEN [w EXCEPT !.aborted = TRUE]
    ELSE [w EXCEPT
            !.gs.dynamic = IF ENTITY_FLAG_STATIC \notin w.ent[e].flags
                           THEN @ \ {e} ELSE @,
            !.ent[e].flags =
                (@ \ {ENTITY_FLAG_SELECTABLE, ENTITY_FLAG_COLLISION,
                      ENTITY_FLAG_COMBATABLE, ENTITY_FLAG_ANIMATED})
                \cup {ENTITY_FLAG_INVISIBLE, ENTITY_FLAG_STATIC, ENTITY_FLAG_ZOMBIE}]

(***************************************************************************)
(* game.c: factions and the diplomacy table                                *)
(***************************************************************************)
\* The indices of s_gs.factions and of s_gs.diplomacy_table
FacIdx == 0..(MaxFactions - 1)

\* enum diplomacy_state; the table is zero-initialised static storage
DIPLOMACY_STATE_ALLY == "DIPLOMACY_STATE_ALLY"
DIPLOMACY_STATE_PEACE == "DIPLOMACY_STATE_PEACE"
DIPLOMACY_STATE_WAR == "DIPLOMACY_STATE_WAR"

\* A zeroed struct faction
NoFaction == [name |-> "", controllable |-> FALSE]

\* A name that does not fit in faction.name
LongName == "a name of MAX_FAC_NAME_LEN characters or more"

\* G_AddFaction leaving alone the entries that hold DIPLOMACY_STATE_WAR
G_AddFaction_KeepWar(w, name) ==
    IF w.gs.num_factions = MaxFactions THEN [ret |-> FALSE, w |-> w]
    ELSE IF name = LongName THEN [ret |-> FALSE, w |-> w]
    ELSE
      LET new_fac_id == w.gs.num_factions IN
      [ret |-> TRUE,
       w |-> [w EXCEPT
                !.gs.factions[new_fac_id] = [name |-> name, controllable |-> TRUE],
                !.gs.num_factions = @ + 1,
                !.gs.diplomacy_table =
                    [i \in FacIdx |-> [j \in FacIdx |->
                        IF /\ (i < new_fac_id /\ j = new_fac_id)
                              \/ (i = new_fac_id /\ j < new_fac_id)
                           /\ @[i][j] # DIPLOMACY_STATE_WAR
                        THEN DIPLOMACY_STATE_PEACE ELSE @[i][j]]]]]

G_AddFaction(w, name) ==
    IF w.gs.num_factions = MaxFactions THEN [ret |-> FALSE, w |-> w]
    ELSE IF name = LongName THEN [ret |-> FALSE, w |-> w]
    ELSE
      LET new_fac_id == w.gs.num_factions IN
      [ret |-> TRUE,
       w |-> [w EXCEPT
                !.gs.factions[new_fac_id] = [name |-> name, controllable |-> TRUE],
                !.gs.num_factions = @ + 1,
                !.gs.diplomacy_table =
                    [i \in FacIdx |-> [j \in FacIdx |->
                        IF (i < new_fac_id /\ j = new_fac_id)
                           \/ (i = new_fac_id /\ j < new_fac_id)
                        THEN DIPLOMACY_STATE_PEACE ELSE @[i][j]]]]]

\* The loop of G_RemoveFaction over s_gs.active
RECURSIVE g_remove_faction_loop(_, _, _)
g_remove_faction_loop(w, es, faction_id) ==
    IF es = <<>> \/ w.aborted THEN w
    ELSE LET e == Head(es) IN
         g_remove_faction_loop(
             IF w.ent[e].faction_id = faction_id THEN G_RemoveEntity(w, e).w
             ELSE IF w.ent[e].faction_id > faction_id
                  THEN [w EXCEPT !.ent[e].faction_id = @ - 1]
                  ELSE w,
             Tail(es), faction_id)

\* G_RemoveFaction with the column memmove left out
G_RemoveFaction_RowsOnly(w, faction_id) ==
    IF w.gs.num_factions < 2 THEN [ret |-> FALSE, w |-> w]
    ELSE IF faction_id < 0 \/ faction_id >= w.gs.num_factions
    THEN [ret |-> FALSE, w |-> w]
    ELSE
      LET w1 == g_remove_faction_loop(w, SetToSortedSeq(w.gs.active), faction_id)
          n == w.gs.num_factions
          Moved(i) == faction_id <= i /\ i < n - 1
          t == w1.gs.diplomacy_table
          rows == [i \in FacIdx |-> IF Moved(i) THEN t[i + 1] ELSE t[i]]
      IN IF w1.aborted THEN [ret |-> FALSE, w |-> w1]
         ELSE [ret |-> TRUE,
               w |-> [w1 EXCEPT
                        !.gs.diplomacy_table = rows,
                        !.gs.factions =
                            [i \in FacIdx |-> IF Moved(i) THEN @[i + 1] ELSE @[i]],
                        !.gs.num_factions = n - 1]]

\* The three memmoves shift the rows, the columns of the first n - 1 rows
\* and the factions behind faction_id down by one
G_RemoveFaction(w, faction_id) ==
    IF w.gs.num_factions < 2 THEN [ret |-> FALSE, w |-> w]
    ELSE IF faction_id < 0 \/ faction_id >= w.gs.num_factions
    THEN [ret |-> FALSE, w |-> w]
    ELSE
      LET w1 == g_remove_faction_loop(w, SetToSortedSeq(w.gs.active), faction_id)
          n == w.gs.num_factions
          Moved(i) == faction_id <= i /\ i < n - 1
          t == w1.gs.diplomacy_table
          rows == [i \in FacIdx |-> IF Moved(i) THEN t[i + 1] ELSE t[i]]
          cols == [i \in FacIdx |->
                     IF i < n - 1
                     THEN [j \in FacIdx |->
                              IF Moved(j) THEN rows[i][j + 1] ELSE rows[i][j]]
                     ELSE rows[i]]
      IN IF w1.aborted THEN [ret |-> FALSE, w |-> w1]
         ELSE [ret |-> TRUE,
               w |-> [w1 EXCEPT
                        !.gs.diplomacy_table = cols,
                        !.gs.factions =
                            [i \in FacIdx |-> IF Moved(i) THEN @[i + 1] ELSE @[i]],
                        !.gs.num_factions = n - 1]]

\* G_SetDiplomacyState writing one direction only
G_SetDiplomacyState_OneWay(w, fac_id_a, fac_id_b, ds) ==
    IF fac_id_a < 0 \/ fac_id_a >= w.gs.num_factions THEN [ret |-> FALSE, w |-> w]
    ELSE IF fac_id_b < 0 \/ fac_id_b >= w.gs.num_factions THEN [ret |-> FALSE, w |-> w]
    ELSE IF fac_id_a = fac_id_b THEN [ret |-> FALSE, w |-> w]
    ELSE [ret |-> TRUE,
          w |-> [w EXCEPT !.gs.diplomacy_table[fac_id_a][fac_id_b] = ds]]

G_SetDiplomacyState(w, fac_id_a, fac_id_b, ds) ==
    IF fac_id_a < 0 \/ fac_id_a >= w.gs.num_factions THEN [ret |-> FALSE, w |-> w]
    ELSE IF fac_id_b < 0 \/ fac_id_b >= w.gs.num_factions THEN [ret |-> FALSE, w |-> w]
    ELSE IF fac_id_a = fac_id_b THEN [ret |-> FALSE, w |-> w]
    ELSE [ret |-> TRUE,
          w |-> [w EXCEPT !.gs.diplomacy_table[fac_id_a][fac_id_b] = ds,
                          !.gs.diplomacy_table[fac_id_b][fac_id_a] = ds]]

\* What a write through s_gs.factions[faction_id] with a negative index can
\* do: the store faults, or it lands in storage in front of the array
OutOfBoundsOutcomes == {"fault", "stray"}

\* Only the upper end of the range is tested; oob is the outcome of the
\* stores when faction_id is negative
G_UpdateFaction(w, faction_id, name, control, oob) ==
    IF faction_id >= w.gs.num_factions THEN [ret |-> FALSE, w |-> w]
    ELSE IF name = LongName THEN [ret |-> FALSE, w |-> w]
    ELSE IF faction_id < 0
    THEN IF oob = "fault" THEN [ret |-> FALSE, w |-> [w EXCEPT !.aborted = TRUE]]
         ELSE [ret |-> TRUE, w |-> w]
    ELSE [ret |-> TRUE,
          w |-> [w EXCEPT !.gs.factions[faction_id] =
                              [name |-> name, controllable |-> control]]]

\* G_GetDiplomacyState asserting that its ids are in range
G_GetDiplomacyState_Asserting(w, fac_id_a, fac_id_b) ==
    IF \/ fac_id_a < 0 \/ fac_id_a >= w.gs.num_factions
       \/ fac_id_b < 0 \/ fac_id_b >= w.gs.num_factions
    THEN [ret |-> FALSE, out |-> NULL, w |-> [w EXCEPT !.aborted = TRUE]]
    ELSE IF fac_id_a = fac_id_b THEN [ret |-> FALSE, out |-> NULL, w |-> w]
    ELSE [ret |-> TRUE, out |-> w.gs.diplomacy_table[fac_id_a][fac_id_b], w |-> w]

\* out is the value stored through the out pointer, NULL if none is
G_GetDiplomacyState(w, fac_id_a, fac_id_b) ==
    IF fac_id_a < 0 \/ fac_id_a >= w.gs.num_factions
    THEN [ret |-> FALSE, out |-> NULL, w |-> w]
    ELSE IF fac_id_b < 0 \/ fac_id_b >= w.gs.num_factions
    THEN [ret |-> FALSE, out |-> NULL, w |-> w]
    ELSE IF fac_id_a = fac_id_b THEN [ret |-> FALSE, out |-> NULL, w |-> w]
    ELSE [ret |-> TRUE, out |-> w.gs.diplomacy_table[fac_id_a][fac_id_b], w |-> w]

(***************************************************************************)
(* anim.c: pose and bind matrices.  A matrix is the product it was built   *)
(* as: a sequence of factors, with concatenation for the product and the  *)
(* empty sequence for the identity, so that no two different products of   *)
(* different factors are equal.                                            *)
(***************************************************************************)
PFM_Mat4x4_Identity == <<>>

\* PFM_Mat4x4_Mult4x4(a, b, out): out = a * b
PFM_Mat4x4_Mult4x4(a, b) == a \o b

\* PFM_Mat4x4_Inverse(m, out)
PFM_Mat4x4_Inverse(m) == [inverse_of |-> m]

\* The scale, rotation or translation matrix of the SQT of a joint, taken
\* from the bind pose or from a frame of a clip
SQTPart(pose, joint_idx, part) == [pose |-> pose, joint |-> joint_idx, part |-> part]

\* a_mat_from_sqt: T * R * S
a_mat_from_sqt(pose, joint_idx) ==
    LET scale == <<SQTPart(pose, joint_idx, "scale")>>
        trans == <<SQTPart(pose, joint_idx, "trans")>>
        rot == <<SQTPart(pose, joint_idx, "rot")>>
        tmp == PFM_Mat4x4_Mult4x4(rot, scale)
    IN PFM_Mat4x4_Mult4x4(trans, tmp)

\* The walk going on from a joint without parent to joint 0
RECURSIVE a_bind_walk_PastRoot(_, _, _, _)
a_bind_walk_PastRoot(skel, joint_idx, bind_trans, steps) ==
    IF steps > skel.num_joints THEN [out |-> bind_trans, steps |-> steps]
    ELSE LET to_parent == a_mat_from_sqt("bind", joint_idx)
             to_curr == bind_trans
             parent_idx == skel.joints[joint_idx]
         IN a_bind_walk_PastRoot(skel, IF parent_idx < 0 THEN 0 ELSE parent_idx,
                                 PFM_Mat4x4_Mult4x4(to_parent, to_curr), steps + 1)

\* The loop of a_make_bind_mat, with the number of times its body has run.
\* The walk is cut off once it has run more often than there are joints,
\* which a walk that ends at a root never does.
RECURSIVE a_bind_walk(_, _, _, _)
a_bind_walk(skel, joint_idx, bind_trans, steps) ==
    IF joint_idx < 0 \/ steps > skel.num_joints
    THEN [out |-> bind_trans, steps |-> steps]
    ELSE LET to_parent == a_mat_from_sqt("bind", joint_idx)
             to_curr == bind_trans
         IN a_bind_walk(skel, skel.joints[joint_idx],
                        PFM_Mat4x4_Mult4x4(to_parent, to_curr), steps + 1)

a_make_bind_mat(joint_idx, skel) ==
    a_bind_walk(skel, joint_idx, PFM_Mat4x4_Identity, 0)

\* The loop of a_make_pose_mat multiplying the other way round
RECURSIVE a_pose_walk_Swapped(_, _, _, _, _)
a_pose_walk_Swapped(skel, sample, joint_idx, pose_trans, steps) ==
    IF joint_idx < 0 \/ steps > skel.num_joints
    THEN [out |-> pose_trans, steps |-> steps]
    ELSE LET to_parent == a_mat_from_sqt(sample, joint_idx)
             to_curr == pose_trans
         IN a_pose_walk_Swapped(skel, sample, skel.joints[joint_idx],
                                PFM_Mat4x4_Mult4x4(to_curr, to_parent), steps + 1)

\* The loop of a_make_pose_mat; sample is the clip and the frame whose
\* local_joint_poses are read
RECURSIVE a_pose_walk(_, _, _, _, _)
a_pose_walk(skel, sample, joint_idx, pose_trans, steps) ==
    IF joint_idx < 0 \/ steps > skel.num_joints
    THEN [out |-> pose_trans, steps |-> steps]
    ELSE LET to_parent == a_mat_from_sqt(sample, joint_idx)
             to_curr == pose_trans
         IN a_pose_walk(skel, sample, skel.joints[joint_idx],
                        PFM_Mat4x4_Mult4x4(to_parent, to_curr), steps + 1)

a_make_pose_mat(w, e, joint_idx, skel) ==
    LET ctx == w.ent[e].ctx
        sample == <<ctx.active, ctx.curr_frame>>
    IN a_pose_walk(skel, sample, joint_idx, PFM_Mat4x4_Identity, 0)

\* A_GetRenderState: out_curr_pose is filled for every joint
A_GetRenderState(w, e) ==
    IF ENTITY_FLAG_ANIMATED \notin w.ent[e].flags THEN [w EXCEPT !.aborted = TRUE]
    ELSE LET skel == w.ent[e].skel IN
         [w EXCEPT !.ent[e].curr_pose =
              [j \in 0..(skel.num_joints - 1) |-> a_make_pose_mat(w, e, j, skel).out]]

\* A_PrepareInvBindMatrices on the skeleton of the entity
A_PrepareInvBindMatrices(w, e) ==
    LET skel == w.ent[e].skel IN
    [w EXCEPT !.ent[e].inv_bind_poses =
         [i \in 0..(skel.num_joints - 1) |->
              PFM_Mat4x4_Inverse(a_make_bind_mat(i, skel).out)]]

(***************************************************************************)
(* render_gl_shadows.c: the depth pass.  Each function takes the flag      *)
(* s_depth_pass_active and returns it with whether its assert held.        *)
(***************************************************************************)
R_GL_DepthPassBegin(active) == [ok |-> ~active, active |-> TRUE]

R_GL_DepthPassEnd(active) == [ok |-> active, active |-> FALSE]

R_GL_RenderDepthMap(active) == [ok |-> active, active |-> active]

\* The render thread calling the function of a command
R_Call(func, active) ==
    CASE func = "R_GL_DepthPassBegin" -> R_GL_DepthPassBegin(active)
      [] func = "R_GL_DepthPassEnd" -> R_GL_DepthPassEnd(active)
      [] func = "R_GL_RenderDepthMap" -> R_GL_RenderDepthMap(active)
      [] OTHER -> [ok |-> TRUE, active |-> active]

(***************************************************************************)
(* scene.c: Scene_Load.  A scene file is the outcome of parsing each of    *)
(* its parts: whether it opens, whether the two count lines parse, and     *)
(* one item per faction and per entity that the count lines announce.      *)
(***************************************************************************)
\* A faction item is the faction's name, or is malformed
MALFORMED == "malformed"

\* An entity item is well formed with a script object that can be made,
\* well formed with one that cannot, or malformed
ENTITY_OK == "entity"
ENTITY_NO_OBJECT == "entity without script object"

\* S_Entity_ObjFromAtts: the script object of a well-formed entity item
\* registers the next entity that is not in the world
S_Entity_ObjFromAtts(w, item) ==
    LET free == DOMAIN w.ent \ w.gs.active IN
    IF item = ENTITY_NO_OBJECT \/ free = {} THEN [ret |-> FALSE, w |-> w]
    ELSE LET e == CHOOSE x \in free : \A y \in free : x <= y
         IN [ret |-> TRUE, w |-> G_AddEntity(w, e).w]

scene_load_entity(w, item) ==
    IF item = MALFORMED THEN [ret |-> FALSE, w |-> w]
    ELSE S_Entity_ObjFromAtts(w, item)

\* The result of G_AddFaction is not looked at
scene_load_faction(w, item) ==
    IF item = MALFORMED THEN [ret |-> FALSE, w |-> w]
    ELSE [ret |-> TRUE, w |-> G_AddFaction(w, item).w]

\* The loop over the entity items: the first failure ends the load
RECURSIVE scene_load_entities(_, _)
scene_load_entities(w, items) ==
    IF items = <<>> THEN [ret |-> TRUE, w |-> w]
    ELSE LET r == scene_load_entity(w, Head(items)) IN
         IF ~r.ret \/ r.w.aborted THEN [ret |-> FALSE, w |-> r.w]
         ELSE scene_load_entities(r.w, Tail(items))

\* The loop over the faction items
RECURSIVE scene_load_factions(_, _)
scene_load_factions(w, items) ==
    IF items = <<>> THEN [ret |-> TRUE, w |-> w]
    ELSE LET r == scene_load_faction(w, Head(items)) IN
         IF ~r.ret THEN [ret |-> FALSE, w |-> r.w]
         ELSE scene_load_factions(r.w, Tail(items))

Scene_Load(w, file) ==
    IF ~file.opens THEN [ret |-> FALSE, w |-> w]
    ELSE IF ~file.num_factions_line THEN [ret |-> FALSE, w |-> w]
    ELSE LET f == scene_load_factions(w, file.factions) IN
         IF ~f.ret THEN f
         ELSE IF ~file.num_entities_line THEN [ret |-> FALSE, w |-> f.w]
         ELSE scene_load_entities(f.w, file.entities)

(***************************************************************************)
(* game.c: G_Update                                                        *)
(***************************************************************************)
\* The body of kh_foreach(s_gs.active, ...) for one entity.  cam_in and
\* light_in are the entities whose OBB the two frustum tests do not put
\* outside.
\* The flags read before A_Update has run on the entity
G_UpdateEntity_FlagsFirst(w, e, cam_in, light_in) ==
    LET w1 == IF w.gs.ss = G_RUNNING /\ ENTITY_FLAG_ANIMATED \in w.ent[e].flags
              THEN A_Update(w, e) ELSE w
        flags == w.ent[e].flags
    IN IF ENTITY_FLAG_COLLISION \notin flags THEN w1
       ELSE IF ENTITY_FLAG_INVISIBLE \in flags THEN w1
       ELSE [w1 EXCEPT
               !.gs.visible = IF e \in cam_in THEN Append(@, e) ELSE @,
               !.gs.light_visible = IF e \in light_in THEN Append(@, e) ELSE @]

G_UpdateEntity(w, e, cam_in, light_in) ==
    LET w1 == IF w.gs.ss = G_RUNNING /\ ENTITY_FLAG_ANIMATED \in w.ent[e].flags
              THEN A_Update(w, e) ELSE w
        flags == w1.ent[e].flags
    IN IF ENTITY_FLAG_COLLISION \notin flags THEN w1
       ELSE IF ENTITY_FLAG_INVISIBLE \in flags THEN w1
       ELSE [w1 EXCEPT
               !.gs.visible = IF e \in cam_in THEN Append(@, e) ELSE @,
               !.gs.light_visible = IF e \in light_in THEN Append(@, e) ELSE @]

RECURSIVE G_UpdateLoop(_, _, _, _)
G_UpdateLoop(w, es, cam_in, light_in) ==
    IF es = <<>> THEN w
    ELSE G_UpdateLoop(G_UpdateEntity(w, Head(es), cam_in, light_in),
                      Tail(es), cam_in, light_in)

G_Update(w, cam_in, light_in) ==
    G_UpdateLoop([w EXCEPT !.gs.visible = <<>>, !.gs.light_visible = <<>>],
                 SetToSortedSeq(w.gs.active), cam_in, light_in)

(***************************************************************************)
(* game.c: the render command producer                                     *)
(***************************************************************************)
\* g_make_draw_list: [stat |-> ..., anim |-> ...], each element the entity
\* whose render state (render_private, model, pose) the list holds.
\* The static list taking every entity, the else branch forgotten
g_make_draw_list_StatAll(w, ents) ==
    [stat |-> ents,
     anim |-> SelectSeq(ents, LAMBDA e : ENTITY_FLAG_ANIMATED \in w.ent[e].flags)]

g_make_draw_list(w, ents) ==
    [stat |-> SelectSeq(ents, LAMBDA e : ENTITY_FLAG_ANIMATED \notin w.ent[e].flags),
     anim |-> SelectSeq(ents, LAMBDA e : ENTITY_FLAG_ANIMATED \in w.ent[e].flags)]

g_create_render_input(w, shadows) ==
    LET cam == g_make_draw_list(w, w.gs.visible)
        light == g_make_draw_list(w, w.gs.light_visible)
    IN [map |-> w.gs.map, shadows |-> shadows,
        cam_vis_stat |-> cam.stat, cam_vis_anim |-> cam.anim,
        light_vis_stat |-> light.stat, light_vis_anim |-> light.anim,
        ok |-> /\ Len(cam.stat) + Len(cam.anim) = Len(w.gs.visible)
               /\ Len(light.stat) + Len(light.anim) = Len(w.gs.light_visible)]

FlatMap(s, F(_)) ==
    LET RECURSIVE go(_)
        go(i) == IF i > Len(s) THEN <<>> ELSE F(s[i]) \o go(i + 1)
    IN go(1)

StatCmd(func, e) ==
    <<Cmd(func, <<RawArg("entity", e, "render_private"), PushArg("model")>>)>>

AnimCmds(func, e) ==
    <<Cmd("R_GL_SetAnimUniforms",
          <<RawArg("skeleton", e, "inv_bind_pose"), PushArg("curr_pose"),
            PushArg("normal"), PushArg("njoints")>>),
      Cmd(func, <<RawArg("entity", e, "render_private"), PushArg("model")>>)>>

\* M_RenderVisibleMap pushes the map's own commands
MapCmds(map, pass) ==
    IF map # NULL THEN <<Cmd("M_RenderVisibleMap", <<PushArg(pass)>>)>> ELSE <<>>

\* g_shadow_pass without its last command
g_shadow_pass_NoEnd(map, stat_ents, anim_ents) ==
    <<Cmd("R_GL_DepthPassBegin",
          <<PushArg("light_pos"), PushArg("pos"), PushArg("dir")>>)>>
    \o MapCmds(map, "RENDER_PASS_DEPTH")
    \o FlatMap(stat_ents, LAMBDA e : StatCmd("R_GL_RenderDepthMap", e))
    \o FlatMap(anim_ents, LAMBDA e : AnimCmds("R_GL_RenderDepthMap", e))

g_shadow_pass(map, stat_ents, anim_ents) ==
    <<Cmd("R_GL_DepthPassBegin",
          <<PushArg("light_pos"), PushArg("pos"), PushArg("dir")>>)>>
    \o MapCmds(map, "RENDER_PASS_DEPTH")
    \o FlatMap(stat_ents, LAMBDA e : StatCmd("R_GL_RenderDepthMap", e))
    \o FlatMap(anim_ents, LAMBDA e : AnimCmds("R_GL_RenderDepthMap", e))
    \o <<Cmd("R_GL_DepthPassEnd", <<>>)>>

g_draw_pass(map, stat_ents, anim_ents) ==
    MapCmds(map, "RENDER_PASS_REGULAR")
    \o FlatMap(stat_ents, LAMBDA e : StatCmd("R_GL_Draw", e))
    \o FlatMap(anim_ents, LAMBDA e : AnimCmds("R_GL_Draw", e))

\* The draw pass enqueued before the shadow pass
G_RenderMapAndEntities_DrawFirst(in) ==
    g_draw_pass(in.map, in.cam_vis_stat, in.cam_vis_anim)
    \o (IF in.shadows
        THEN g_shadow_pass(in.map, in.light_vis_stat, in.light_vis_anim)
        ELSE <<>>)

G_RenderMapAndEntities(in) ==
    (IF in.shadows
     THEN g_shadow_pass(in.map, in.light_vis_stat, in.light_vis_anim)
     ELSE <<>>)
    \o g_draw_pass(in.map, in.cam_vis_stat, in.cam_vis_anim)

\* g_push_render_input: the struct, the camera and the non-empty arrays are
\* copied; the map pointer and the pointers inside the array elements are not.
g_push_render_input(in) ==
    <<PushArg("render_input"), PushArg("cam")>>
    \o (IF in.cam_vis_stat # <<>> THEN <<PushArg("cam_vis_stat")>> ELSE <<>>)
    \o (IF in.cam_vis_anim # <<>> THEN <<PushArg("cam_vis_anim")>> ELSE <<>>)
    \o (IF in.light_vis_stat # <<>> THEN <<PushArg("light_vis_stat")>> ELSE <<>>)
    \o (IF in.light_vis_anim # <<>> THEN <<PushArg("light_vis_anim")>> ELSE <<>>)
    \o <<RawArg("map", 0, "map")>>
    \o FlatMap(in.cam_vis_stat \o in.cam_vis_anim \o in.light_vis_stat \o in.light_vis_anim,
               LAMBDA e : <<RawArg("entity", e, "render_private")>>)
    \o FlatMap(in.cam_vis_anim \o in.light_vis_anim,
               LAMBDA e : <<RawArg("skeleton", e, "inv_bind_pose")>>)

WaterCmds(in) ==
    IF in.map # NULL
    THEN <<Cmd("R_GL_DrawWater",
               g_push_render_input(in) \o <<PushArg("refract"), PushArg("reflect")>>)>>
    ELSE <<>>

SelectionCmds(gs, selected) ==
    FlatMap(selected, LAMBDA e :
        <<Cmd("R_GL_DrawSelectionCircle",
              <<PushArg("curr_pos"), PushArg("selection_radius"), PushArg("width"),
                PushArg("color"), RawArg("map", 0, "prev_tick_map")>>)>>)

\* g_render_healthbars handing over the camera itself instead of a copy
g_render_healthbars_RawCam ==
    <<Cmd("R_GL_DrawHealthbars",
          <<PushArg("num_combat_visible"), PushArg("ent_health_pc"),
            PushArg("ent_top_pos_ws"), RawArg("camera", 0, "cam")>>)>>

g_render_healthbars ==
    <<Cmd("R_GL_DrawHealthbars",
          <<PushArg("num_combat_visible"), PushArg("ent_health_pc"),
            PushArg("ent_top_pos_ws"), PushArg("cam")>>)>>

\* M_RenderMinimap pushes the map's own command
MinimapCmds(map) ==
    IF map # NULL THEN <<Cmd("M_RenderMinimap", <<PushArg("cam")>>)>> ELSE <<>>

\* shadows and healthbars are the two settings read, selected is G_Sel_Get()
G_Render(w, shadows, healthbars, selected) ==
    LET w1 == R_PushCmd(w, Cmd("R_GL_BeginFrame", <<>>))
        in == g_create_render_input(w1, shadows)
    IN
    IF ~in.ok THEN [w1 EXCEPT !.aborted = TRUE]
    ELSE
      LET w2 == R_PushCmds(w1, G_RenderMapAndEntities(in) \o WaterCmds(in)
                               \o SelectionCmds(w1.gs, selected))
          w3 == E_Global_NotifyImmediate(w2, EVENT_RENDER_3D, NULL, ES_ENGINE)
          w4 == R_PushCmd(w3, Cmd("R_GL_SetScreenspaceDrawMode", <<>>))
          w5 == E_Global_NotifyImmediate(w4, EVENT_RENDER_UI, NULL, ES_ENGINE)
      IN IF w2.aborted THEN w2
         ELSE IF w3.aborted THEN w3
         ELSE IF w5.aborted THEN w5
         ELSE R_PushCmds(w5, (IF healthbars THEN g_render_healthbars ELSE <<>>)
                             \o MinimapCmds(w5.gs.map))

(***************************************************************************)
(* game.c: starting a new game                                             *)
(***************************************************************************)
RECURSIVE SafeFreeAll(_, _)
SafeFreeAll(w, es) ==
    IF es = <<>> THEN w ELSE SafeFreeAll(G_SafeFree(w, Head(es)), Tail(es))

\* The handle of the loaded map (AL_MapFromPFMap) and of its shallow copy
MAP_LOADED == 1

g_reset(w) ==
    LET w1 == SafeFreeAll(w, SetToSortedSeq(w.gs.active))
        w2 == [w1 EXCEPT !.gs.active = {}, !.gs.dynamic = {},
                         !.gs.visible = <<>>, !.gs.light_visible = <<>>]
        w3 == IF w2.gs.map # NULL
              THEN [w2 EXCEPT !.gs.map = NULL, !.gs.prev_tick_map = NULL]
              ELSE w2
    IN [w3 EXCEPT !.gs.num_factions = 0]

\* map_ok: whether AL_MapFromPFMap parses the map
G_NewGameWithMap(w, map_ok) ==
    LET w1 == g_reset(w)
        w2 == [w1 EXCEPT !.gs.prev_tick_map = MAP_LOADED]
    IN IF ~map_ok THEN w2
       ELSE E_Global_Notify([w2 EXCEPT !.gs.map = MAP_LOADED],
                            EVENT_NEW_GAME, NULL, ES_ENGINE)

\* The same steps on a map given as a string; map_ok: whether
\* AL_MapFromPFMapString parses it.  On failure the copy is freed and the
\* pointer to it keeps its value.
G_NewGameWithMapString(w, map_ok) ==
    LET w1 == g_reset(w)
        w2 == [w1 EXCEPT !.gs.prev_tick_map = MAP_LOADED]
    IN IF ~map_ok THEN w2
       ELSE E_Global_Notify([w2 EXCEPT !.gs.map = MAP_LOADED],
                            EVENT_NEW_GAME, NULL, ES_ENGINE)

(***************************************************************************)
(* game.c: G_Shutdown                                                      *)
(***************************************************************************)
\* R_DestroyWS: the queue and the arena of the workspace are freed
R_DestroyWS(gs, i) ==
    [gs EXCEPT !.ws[i] = EmptyWS, !.ws_destroyed = @ \cup {i}]

\* What a push into a freed queue can do: the program stops at the access,
\* or the command is written where the queue was
UseAfterDestroyOutcomes == {"fault", "stray"}

\* g_reset, both workspaces destroyed, then R_GL_WaterShutdown pushed into
\* the simulation workspace; the vectors and tables destroyed last
G_Shutdown(w, uad) ==
    LET w1 == g_reset(w)
        w2 == [w1 EXCEPT !.gs = R_DestroyWS(R_DestroyWS(@, 0), 1)]
        w3 == IF uad = "fault" THEN [w2 EXCEPT !.aborted = TRUE]
              ELSE R_PushCmd(w2, Cmd("R_GL_WaterShutdown", <<>>))
    IN IF w3.aborted THEN w3
       ELSE [w3 EXCEPT !.gs.visible = <<>>, !.gs.light_visible = <<>>,
                       !.gs.deleted = <<>>]

(***************************************************************************)
(* game.c: G_SwapBuffers                                                   *)
(***************************************************************************)
RECURSIVE FreeAll(_, _)
FreeAll(w, es) ==
    IF es = <<>> THEN w ELSE FreeAll(AL_EntityFree(w, Head(es)), Tail(es))

\* G_SwapBuffers resetting the workspace it leaves instead of the one it takes
G_SwapBuffers_WrongReset(w) ==
    LET sim_idx == w.gs.curr_ws_idx
        render_idx == (sim_idx + 1) % 2
        w1 == [FreeAll(w, w.gs.deleted) EXCEPT !.gs.deleted = <<>>]
    IN IF Len(w1.gs.ws[render_idx].commands) # 0
       THEN [w1 EXCEPT !.aborted = TRUE]
       ELSE [w1 EXCEPT !.gs.ws[sim_idx] = R_ClearWS(@),
                       !.gs.curr_ws_idx = render_idx]

\* G_SwapBuffers without its drained check
G_SwapBuffers_NoCheck(w) ==
    LET sim_idx == w.gs.curr_ws_idx
        render_idx == (sim_idx + 1) % 2
        w1 == [FreeAll(w, w.gs.deleted) EXCEPT !.gs.deleted = <<>>]
    IN [w1 EXCEPT !.gs.ws[render_idx] = R_ClearWS(@),
                  !.gs.curr_ws_idx = render_idx]

G_SwapBuffers(w) ==
    LET sim_idx == w.gs.curr_ws_idx
        render_idx == (sim_idx + 1) % 2
        w1 == [FreeAll(w, w.gs.deleted) EXCEPT !.gs.deleted = <<>>]
    IN IF Len(w1.gs.ws[render_idx].commands) # 0
       THEN [w1 EXCEPT !.aborted = TRUE]
       ELSE [w1 EXCEPT !.gs.ws[render_idx] = R_ClearWS(@),
                       !.gs.curr_ws_idx = render_idx]


(***************************************************************************)
(* The initial state: G_Init and E_Init have run, the entities have been   *)
(* loaded and their animation contexts initialised at tick 0.              *)
(***************************************************************************)
NoCmd == [func |-> "none", args |-> <<>>]

\* The flags an entity is loaded with: an animated unit or a static prop
FlagMenu ==
    {{ENTITY_FLAG_COLLISION, ENTITY_FLAG_ANIMATED, ENTITY_FLAG_SELECTABLE},
     {ENTITY_FLAG_COLLISION, ENTITY_FLAG_STATIC}}

InitCtx ==
    [active |-> 1, idle |-> 1, mode |-> ANIM_MODE_LOOP, key_fps |-> 2,
     curr_frame |-> 0, curr_frame_start_ticks |-> 0]

InitEntity(flags) ==
    [mem |-> "alloc", flags |-> flags, ctx |-> InitCtx, faction_id |-> 0]

\* G_Init: both workspaces initialised, R_GL_WaterInit pushed, no map,
\* curr_ws_idx = 0, ss = G_RUNNING
G_Init ==
    [curr_ws_idx |-> 0,
     ws |-> [i \in {0, 1} |->
                IF i = 0
                THEN [commands |-> <<Cmd("R_GL_WaterInit", <<>>)>>, arena |-> 0]
                ELSE EmptyWS],
     active |-> {}, dynamic |-> {}, visible |-> <<>>, light_visible |-> <<>>,
     deleted |-> <<>>, map |-> NULL, prev_tick_map |-> NULL,
     ws_destroyed |-> {},
     ss |-> G_RUNNING, ss_change_tick |-> 0,
     num_factions |-> 0,
     factions |-> [i \in FacIdx |-> NoFaction],
     diplomacy_table |-> [i \in FacIdx |-> [j \in FacIdx |-> DIPLOMACY_STATE_ALLY]]]

InitCommon ==
    /\ s_gs = G_Init
    /\ s_event_handler_table = <<>>
    /\ s_event_queue = <<>>
    /\ ticks = 0
    /\ registered = <<>>
    /\ reg_stamp = 0
    /\ paused_at = 0
    /\ sim_pc = "update"
    /\ r_pc = "idle"
    /\ r_ws = 1
    /\ r_cmd = NoCmd
    /\ s_depth_pass_active = FALSE
    /\ aborted = FALSE
    /\ last_call = "init"
    /\ hlog = <<>>
    /\ dlog = <<>>
    /\ enq = <<>>
    /\ rlog = <<>>

\* Every entity an animated unit
InitAnimated ==
    /\ InitCommon
    /\ entities = [e \in Ents |->
           InitEntity({ENTITY_FLAG_COLLISION, ENTITY_FLAG_ANIMATED, ENTITY_FLAG_SELECTABLE})]

Init ==
    /\ InitCommon
    /\ \E f \in [Ents -> FlagMenu] : entities = [e \in Ents |-> InitEntity(f[e])]

renderVars == <<r_pc, r_ws, r_cmd, s_depth_pass_active>>
ghostVars == <<registered, reg_stamp, paused_at>>

\* A call made by the simulation (main) thread
SimCall(name, w) ==
    /\ Apply(w)
    /\ last_call' = name
    /\ UNCHANGED <<ticks, renderVars>>

(***************************************************************************)
(* The simulation thread.  A tick is G_Update, G_Render, G_SwapBuffers;    *)
(* entities are added, removed and handed to G_SafeFree at any point.      *)
(***************************************************************************)
Do_G_AddEntity ==
    /\ ~aborted
    /\ \E e \in DOMAIN entities :
        /\ entities[e].mem = "alloc"
        /\ e \notin s_gs.active
        /\ e \notin Range(s_gs.deleted)
        /\ SimCall("G_AddEntity", G_AddEntity(World, e).w)
    /\ UNCHANGED <<sim_pc, ghostVars>>

Do_G_RemoveEntity ==
    /\ ~aborted
    /\ \E e \in s_gs.active : SimCall("G_RemoveEntity", G_RemoveEntity(World, e).w)
    /\ UNCHANGED <<sim_pc, ghostVars>>

Do_G_SafeFree ==
    /\ ~aborted
    /\ \E e \in Ents :
        /\ entities[e].mem = "alloc"
        /\ e \notin s_gs.active
        /\ e \notin Range(s_gs.deleted)
        /\ SimCall("G_SafeFree", G_SafeFree(World, e))
    /\ UNCHANGED <<sim_pc, ghostVars>>

G_UpdateWith(cam_in, light_in) ==
    LET w == G_Update(World, cam_in, light_in) IN
    /\ Len(w.q) <= MaxQueue
    /\ SimCall("G_Update", w)

\* The frustum tests keep every entity, or none
Do_G_Update ==
    /\ ~aborted
    /\ sim_pc = "update"
    /\ \E all \in BOOLEAN :
         LET in == IF all THEN s_gs.active ELSE {} IN G_UpdateWith(in, in)
    /\ sim_pc' = "render"
    /\ UNCHANGED ghostVars

\* G_Sel_Get() with every visible selectable entity selected; G_RemoveEntity
\* takes an entity out of the selection
AllSelected(w) ==
    SelectSeq(w.gs.visible,
              LAMBDA e : ENTITY_FLAG_SELECTABLE \in w.ent[e].flags /\ e \in w.gs.active)

G_RenderWith(shadows, healthbars, selected) ==
    LET w == G_Render(World, shadows, healthbars, selected) IN
    /\ Len(w.q) <= MaxQueue
    /\ SimCall("G_Render", w)

\* Shadows, healthbars and a selection, or none of them
Do_G_Render ==
    /\ ~aborted
    /\ sim_pc = "render"
    /\ \E on \in BOOLEAN :
         G_RenderWith(on, on, IF on THEN AllSelected(World) ELSE <<>>)
    /\ sim_pc' = "swap"
    /\ UNCHANGED ghostVars

Do_G_NewGameWithMap ==
    /\ ~aborted
    /\ sim_pc = "update"
    /\ Len(s_event_queue) < MaxQueue
    /\ \E map_ok \in BOOLEAN :
         SimCall("G_NewGameWithMap", G_NewGameWithMap(World, map_ok))
    /\ UNCHANGED <<sim_pc, ghostVars>>

\* The main loop services the event queue at the start of a tick.
Do_E_ServiceQueue ==
    /\ ~aborted
    /\ sim_pc = "update"
    /\ SimCall("E_ServiceQueue", E_ServiceQueue(World))
    /\ UNCHANGED <<sim_pc, ghostVars>>

Do_G_SwapBuffers ==
    /\ ~aborted
    /\ sim_pc = "swap"
    /\ SimCall("G_SwapBuffers", G_SwapBuffers(World))
    /\ sim_pc' = "update"
    /\ UNCHANGED ghostVars

(***************************************************************************)
(* The render thread: it takes the workspace G_GetRenderWS() returns and   *)
(* drains its queue, popping a command and then executing it.              *)
(***************************************************************************)
RenderStep(name) ==
    /\ last_call' = name
    /\ hlog' = <<>> /\ dlog' = <<>> /\ enq' = <<>> /\ rlog' = <<>>
    /\ UNCHANGED <<entities, s_event_handler_table, s_event_queue, ticks,
                   aborted, sim_pc, ghostVars>>

R_Begin ==
    /\ ~aborted
    /\ r_pc = "idle"
    /\ s_gs.ws[G_GetRenderWS(s_gs)].commands # <<>>
    /\ r_ws' = G_GetRenderWS(s_gs)
    /\ r_pc' = "drain"
    /\ RenderStep("R_Begin")
    /\ UNCHANGED <<s_gs, r_cmd, s_depth_pass_active>>

R_Pop ==
    /\ ~aborted
    /\ r_pc = "drain"
    /\ s_gs.ws[r_ws].commands # <<>>
    /\ r_cmd' = Head(s_gs.ws[r_ws].commands)
    /\ s_gs' = [s_gs EXCEPT !.ws[r_ws].commands = Tail(@)]
    /\ r_pc' = "exec"
    /\ RenderStep("R_Pop")
    /\ UNCHANGED <<r_ws, s_depth_pass_active>>

R_Exec ==
    /\ ~aborted
    /\ r_pc = "exec"
    /\ r_cmd' = NoCmd
    /\ r_pc' = IF s_gs.ws[r_ws].commands = <<>> THEN "idle" ELSE "drain"
    /\ RenderStep("R_Exec")
    /\ UNCHANGED <<s_gs, r_ws, s_depth_pass_active>>

Next ==
    \/ Do_G_AddEntity
    \/ Do_G_RemoveEntity
    \/ Do_G_SafeFree
    \/ Do_G_Update
    \/ Do_G_Render
    \/ Do_G_SwapBuffers
    \/ R_Begin
    \/ R_Pop
    \/ R_Exec

Spec == InitAnimated /\ [][Next]_vars

(***************************************************************************)
(* The render command producer on its own: the simulation thread's tick    *)
(* with new games and event servicing, and a render thread that drains a   *)
(* whole workspace at a time.                                              *)
(***************************************************************************)
R_Drain ==
    /\ ~aborted
    /\ r_pc = "idle"
    /\ s_gs.ws[G_GetRenderWS(s_gs)].commands # <<>>
    /\ s_gs' = [s_gs EXCEPT !.ws[G_GetRenderWS(s_gs)].commands = <<>>]
    /\ RenderStep("R_Drain")
    /\ UNCHANGED renderVars

NextProducer ==
    \/ Do_G_AddEntity
    \/ Do_G_Update
    \/ Do_G_Render
    \/ Do_G_SwapBuffers
    \/ Do_G_NewGameWithMap
    \/ Do_E_ServiceQueue
    \/ R_Drain

SpecProducer == Init /\ [][NextProducer]_vars


(***************************************************************************)
(* The event bus on its own: handlers are registered and unregistered,     *)
(* events are queued, dispatched at once or serviced, and the simulation   *)
(* state is changed, in any order.  registered is the list of the          *)
(* registrations made and not undone, kept aside from the handler table;   *)
(* a registration's user_arg is its stamp.                                 *)
(***************************************************************************)
EvMenu == {EVENT_USER_A, EVENT_UPDATE_END}

RegHandlers == {"h_none", "h_pause", "h_notify"}

MaskMenu == {G_RUNNING, SIMMASK_ALL}

Registration(recv, ev, h, stamp, mask) ==
    [recv |-> recv, ev |-> ev, handler |-> h, stamp |-> stamp, simmask |-> mask]

\* registered without its first registration of handler h for (recv, ev)
RemoveFirst(regs, recv, ev, h) ==
    LET hits == {i \in 1..Len(regs) :
                    regs[i].recv = recv /\ regs[i].ev = ev /\ regs[i].handler = h}
    IN IF hits = {} THEN regs
       ELSE LET m == CHOOSE i \in hits : \A j \in hits : i <= j
            IN SubSeq(regs, 1, m - 1) \o SubSeq(regs, m + 1, Len(regs))

\* The name of a call that returned false
Refused(name) == "false: " \o name

\* A call that returns a bool: last_call tells whether it returned true
Returned(name, ret) == IF ret THEN name ELSE Refused(name)

EventCall(name, w) ==
    /\ ~aborted
    /\ SimCall(name, w)
    /\ UNCHANGED sim_pc

E_Global_RegisterFor(evs, hs, masks) ==
    /\ reg_stamp < MaxRegs
    /\ \E ev \in evs, h \in hs, mask \in masks :
        /\ EventCall("E_Global_Register",
                     E_Global_Register(World, ev, h, reg_stamp + 1, mask))
        /\ registered' = Append(registered,
                                Registration(GLOBAL_ID, ev, h, reg_stamp + 1, mask))
    /\ reg_stamp' = reg_stamp + 1
    /\ UNCHANGED paused_at

Do_E_Global_Register == E_Global_RegisterFor(EvMenu, RegHandlers, MaskMenu)

E_Entity_RegisterFor(evs, hs) ==
    /\ reg_stamp < MaxRegs
    /\ \E ev \in evs, e \in Ents, h \in hs, mask \in MaskMenu :
        /\ EventCall("E_Entity_Register",
                     E_Entity_Register(World, ev, e, h, reg_stamp + 1, mask))
        /\ registered' = Append(registered, Registration(e, ev, h, reg_stamp + 1, mask))
    /\ reg_stamp' = reg_stamp + 1
    /\ UNCHANGED paused_at

Do_E_Entity_Register == E_Entity_RegisterFor({EVENT_USER_A}, RegHandlers)

Do_E_Global_Unregister ==
    /\ \E ev \in EvMenu, h \in RegHandlers :
        /\ LET r == E_Global_Unregister(s_event_handler_table, ev, h) IN
             EventCall(Returned("E_Global_Unregister", r.ret),
                       [World EXCEPT !.tbl = r.tbl])
        /\ registered' = RemoveFirst(registered, GLOBAL_ID, ev, h)
    /\ UNCHANGED <<reg_stamp, paused_at>>

Do_E_Entity_Unregister ==
    /\ \E ev \in {EVENT_USER_A}, e \in Ents, h \in RegHandlers :
        /\ LET r == E_Entity_Unregister(s_event_handler_table, ev, e, h) IN
             EventCall(Returned("E_Entity_Unregister", r.ret),
                       [World EXCEPT !.tbl = r.tbl])
        /\ registered' = RemoveFirst(registered, e, ev, h)
    /\ UNCHANGED <<reg_stamp, paused_at>>

Do_E_Global_Notify ==
    /\ Len(s_event_queue) < MaxQueue
    /\ EventCall("E_Global_Notify", E_Global_Notify(World, EVENT_USER_A, NULL, ES_ENGINE))
    /\ UNCHANGED ghostVars

Do_E_Entity_Notify ==
    /\ Len(s_event_queue) < MaxQueue
    /\ \E e \in Ents :
        EventCall("E_Entity_Notify", E_Entity_Notify(World, EVENT_USER_A, e, NULL, ES_ENGINE))
    /\ UNCHANGED ghostVars

Do_E_Global_NotifyImmediate ==
    /\ Len(s_event_queue) < MaxQueue
    /\ EventCall("E_Global_NotifyImmediate",
                 E_Global_NotifyImmediate(World, EVENT_USER_A, NULL, ES_ENGINE))
    /\ UNCHANGED ghostVars

Do_G_SetSimState ==
    /\ Len(s_event_queue) < MaxQueue
    /\ \E ss \in {G_RUNNING, G_PAUSED_FULL} :
        EventCall("G_SetSimState", G_SetSimState(World, ss))
    /\ UNCHANGED ghostVars

NextEvent ==
    \/ Do_E_Global_Register
    \/ Do_E_Entity_Register
    \/ Do_E_Global_Unregister
    \/ Do_E_Entity_Unregister
    \/ Do_E_Global_Notify
    \/ Do_E_Entity_Notify
    \/ Do_E_Global_NotifyImmediate
    \/ Do_E_ServiceQueue
    \/ Do_G_SetSimState

SpecEvent == InitAnimated /\ [][NextEvent]_vars

(***************************************************************************)
(* The animation sampler on its own: the clock advances, A_Update and      *)
(* A_SetActiveClip are called on the entities, the event queue is          *)
(* serviced.                                                               *)
(***************************************************************************)
TickMenu == {100, 500}

KeyFpsMenu == {2, 10}

AnimModes == {ANIM_MODE_LOOP, ANIM_MODE_ONCE, ANIM_MODE_ONCE_HIDE_ON_FINISH}

\* SDL_GetTicks() returns dt milliseconds more than the last time
TickUpTo(horizon) ==
    /\ ~aborted
    /\ \E dt \in TickMenu :
        /\ ticks + dt <= horizon
        /\ ticks' = (ticks + dt) % UINT32_MOD
    /\ last_call' = "Tick"
    /\ hlog' = <<>> /\ dlog' = <<>> /\ enq' = <<>> /\ rlog' = <<>>
    /\ UNCHANGED <<s_gs, entities, s_event_handler_table, s_event_queue, aborted,
                   sim_pc, renderVars, ghostVars>>

Tick == TickUpTo(MaxTicks)

Do_A_Update ==
    /\ Len(s_event_queue) < MaxQueue
    /\ \E e \in Ents :
        /\ ENTITY_FLAG_ANIMATED \in entities[e].flags
        /\ EventCall("A_Update", A_Update(World, e))
    /\ UNCHANGED ghostVars

\* Clip names are compared with strcmp: "Idle" is not a clip of the entity
ClipNameMenu == ClipNames \cup {"Idle"}

Do_A_SetActiveClip ==
    /\ \E e \in Ents, name \in ClipNameMenu, mode \in AnimModes, key_fps \in KeyFpsMenu :
        /\ ENTITY_FLAG_ANIMATED \in entities[e].flags
        /\ EventCall("A_SetActiveClip", A_SetActiveClip(World, e, name, mode, key_fps))
    /\ UNCHANGED ghostVars

Do_A_InitCtx ==
    /\ \E e \in Ents, idle_clip \in ClipNameMenu, key_fps \in KeyFpsMenu :
        /\ ENTITY_FLAG_ANIMATED \in entities[e].flags
        /\ EventCall("A_InitCtx", A_InitCtx(World, e, idle_clip, key_fps))
    /\ UNCHANGED ghostVars

NextAnim ==
    \/ Tick
    \/ Do_A_Update
    \/ Do_A_SetActiveClip
    \/ Do_A_InitCtx
    \/ Do_E_ServiceQueue

SpecAnim == InitAnimated /\ [][NextAnim]_vars

(***************************************************************************)
(* Playback under the main loop: entities are constructed with A_InitCtx   *)
(* at tick 0 and added to the registry, the clock advances, G_Update       *)
(* samples every active animated entity, handlers are registered for the   *)
(* cycle-finished event of an entity and the event queue is serviced.      *)
(***************************************************************************)
MaxPlayTicks == 1200

AnimatedUnit == {ENTITY_FLAG_COLLISION, ENTITY_FLAG_ANIMATED, ENTITY_FLAG_SELECTABLE}

\* The entities as allocated, before their animation contexts are initialised
Allocated ==
    [ent |-> [e \in Ents |-> InitEntity(AnimatedUnit)], ticks |-> 0, aborted |-> FALSE]

\* A_InitCtx(ent, idle_clip, key_fps) on every entity, at tick 0
InitPlay ==
    /\ InitCommon
    /\ \E idle_clip \in [Ents -> ClipNames], key_fps \in [Ents -> KeyFpsMenu] :
         entities = [e \in Ents |->
                        A_InitCtx(Allocated, e, idle_clip[e], key_fps[e]).ent[e]]

TickPlay == TickUpTo(MaxPlayTicks)

\* G_Update with the frustum tests keeping every entity
Do_G_UpdatePlay ==
    /\ LET w == G_Update(World, s_gs.active, s_gs.active) IN
         /\ Len(w.q) <= MaxQueue
         /\ EventCall("G_Update", w)
    /\ UNCHANGED ghostVars

Do_E_Entity_RegisterAnim ==
    E_Entity_RegisterFor({EVENT_ANIM_CYCLE_FINISHED}, {"h_none"})

NextPlay ==
    \/ TickPlay
    \/ Do_G_AddEntity
    \/ Do_G_UpdatePlay
    \/ Do_E_Entity_RegisterAnim
    \/ Do_E_ServiceQueue

SpecPlay == InitPlay /\ [][NextPlay]_vars

(***************************************************************************)
(* Pausing and resuming: the clock advances, entities are added, G_Update  *)
(* samples them while the simulation runs, and G_SetSimState moves between *)
(* the running state and the two paused states.                            *)
(***************************************************************************)
Do_G_SetSimStateAny ==
    /\ Len(s_event_queue) < MaxQueue
    /\ \E ss \in SimStates :
        /\ EventCall("G_SetSimState", G_SetSimState(World, ss))
        /\ paused_at' = IF s_gs.ss = G_RUNNING /\ ss # G_RUNNING
                        THEN ticks ELSE paused_at
    /\ UNCHANGED <<registered, reg_stamp>>

NextPause ==
    \/ Tick
    \/ Do_G_AddEntity
    \/ Do_G_UpdatePlay
    \/ Do_G_SetSimStateAny
    \/ Do_E_ServiceQueue

SpecPause == InitAnimated /\ [][NextPause]_vars

(***************************************************************************)
(* The scene: entities of any mix of flags are added, removed and turned   *)
(* into zombies at any point of the tick, the UI registers its handler for *)
(* EVENT_RENDER_UI, and the tick runs G_Update, G_Render, G_SwapBuffers    *)
(* with the render thread draining its workspace in between.               *)
(***************************************************************************)
NumSceneEnts == 2

SceneEnts == 1..NumSceneEnts

InitScene ==
    /\ InitCommon
    /\ \E f \in [SceneEnts -> FlagMenu] :
         entities = [e \in SceneEnts |-> InitEntity(f[e])]

\* The render thread has drained the workspace it was handed: the main loop
\* goes on with the next tick only then
RenderDone == s_gs.ws[G_GetRenderWS(s_gs)].commands = <<>>

\* A call made by the simulation thread at the start of its tick, where the
\* main loop runs the event handlers and scripts
SceneCall(name, w) ==
    /\ ~aborted
    /\ RenderDone
    /\ sim_pc = "update"
    /\ SimCall(name, w)
    /\ UNCHANGED <<sim_pc, ghostVars>>

\* G_AddEntity with any entity, one already active included
Do_G_AddEntityAny ==
    \E e \in DOMAIN entities : SceneCall("G_AddEntity", G_AddEntity(World, e).w)

\* G_RemoveEntity with any entity, one not active included
Do_G_RemoveEntityAny ==
    \E e \in DOMAIN entities : SceneCall("G_RemoveEntity", G_RemoveEntity(World, e).w)

Do_G_Zombiefy ==
    \E e \in DOMAIN entities : SceneCall("G_Zombiefy", G_Zombiefy(World, e))

\* The UI's handler for EVENT_RENDER_UI
Do_UI_Register ==
    /\ RenderDone
    /\ sim_pc = "update"
    /\ E_Global_RegisterFor({EVENT_RENDER_UI}, {"h_ui"}, {SIMMASK_ALL})

\* Each of the two frustum tests keeps every entity, or none
Do_G_UpdateScene ==
    /\ ~aborted
    /\ RenderDone
    /\ sim_pc = "update"
    /\ \E cam_all, light_all \in BOOLEAN :
         G_UpdateWith(IF cam_all THEN s_gs.active ELSE {},
                      IF light_all THEN s_gs.active ELSE {})
    /\ sim_pc' = "render"
    /\ UNCHANGED ghostVars

\* The shadows and healthbar settings on or off
Do_G_RenderScene ==
    /\ ~aborted
    /\ sim_pc = "render"
    /\ \E shadows, healthbars \in BOOLEAN :
         G_RenderWith(shadows, healthbars, AllSelected(World))
    /\ sim_pc' = "swap"
    /\ UNCHANGED ghostVars

NextScene ==
    \/ Do_G_AddEntityAny
    \/ Do_G_RemoveEntityAny
    \/ Do_G_Zombiefy
    \/ Do_UI_Register
    \/ Do_G_UpdateScene
    \/ Do_G_RenderScene
    \/ Do_G_SwapBuffers
    \/ R_Drain

SpecScene == InitScene /\ [][NextScene]_vars

(***************************************************************************)
(* Factions: factions are added and removed, diplomacy states are set,     *)
(* entities of the factions are added to the registry and a new game       *)
(* resets the game state.                                                  *)
(***************************************************************************)
FactionNames == {"red", "blue"}

DiplomacyMenu == {DIPLOMACY_STATE_WAR}

\* Faction ids passed by callers, some of them out of range
FacIdMenu == (0 - 1)..MaxFactions

\* The entities are created for the factions in turn
InitFaction ==
    /\ InitCommon
    /\ entities = [e \in SceneEnts |->
           [InitEntity(AnimatedUnit) EXCEPT !.faction_id = (e - 1) % MaxFactions]]

\* A call that returns a bool: last_call tells whether it returned true
FactionCall(name, r) ==
    /\ ~aborted
    /\ SimCall(IF r.ret THEN name ELSE Refused(name), r.w)
    /\ UNCHANGED <<sim_pc, ghostVars>>

Do_G_AddFaction ==
    \E name \in FactionNames \cup {LongName} :
        FactionCall("G_AddFaction", G_AddFaction(World, name))

Do_G_RemoveFaction ==
    \E faction_id \in FacIdMenu :
        FactionCall("G_RemoveFaction", G_RemoveFaction(World, faction_id))

Do_G_SetDiplomacyState ==
    \E fac_id_a, fac_id_b \in FacIdMenu, ds \in DiplomacyMenu :
        FactionCall("G_SetDiplomacyState",
                    G_SetDiplomacyState(World, fac_id_a, fac_id_b, ds))

\* A new game whose map does not parse: the game state is reset and stays so
Do_G_NewGameWithBadMap ==
    /\ ~aborted
    /\ SimCall("G_NewGameWithMap", G_NewGameWithMap(World, FALSE))
    /\ UNCHANGED <<sim_pc, ghostVars>>

NextFaction ==
    \/ Do_G_AddFaction
    \/ Do_G_RemoveFaction
    \/ Do_G_SetDiplomacyState
    \/ Do_G_AddEntity
    \/ Do_G_NewGameWithBadMap

SpecFaction == InitFaction /\ [][NextFaction]_vars

(***************************************************************************)
(* A full arena: the ticks of the scene, with G_Render finding room for    *)
(* some number of arguments only in the arena of its workspace.            *)
(***************************************************************************)
MaxRoom == 4

Do_G_RenderShort ==
    /\ ~aborted
    /\ sim_pc = "render"
    /\ \E shadows, healthbars \in BOOLEAN, n \in 0..MaxRoom :
         LET w == G_Render([World EXCEPT !.room = Limited(n)],
                           shadows, healthbars, AllSelected(World))
         IN SimCall("G_Render", w)
    /\ sim_pc' = "swap"
    /\ UNCHANGED ghostVars

NextArena ==
    \/ Do_G_AddEntityAny
    \/ Do_G_UpdateScene
    \/ Do_G_RenderShort
    \/ Do_G_SwapBuffers
    \/ R_Drain

SpecArena == InitScene /\ [][NextArena]_vars

(***************************************************************************)
(* Skeletons: the entities have a skeleton, their clips are played and     *)
(* their pose and inverse bind matrices are computed.                      *)
(***************************************************************************)
MaxJoints == 3

\* The joints one parent step above the joints in S
ParentsOf(joints, S) == {joints[j] : j \in S} \cap DOMAIN joints

\* The joints at most k parent steps, and at least one, above those in S
RECURSIVE AncestorsWithin(_, _, _)
AncestorsWithin(joints, S, k) ==
    IF k = 0 THEN {}
    ELSE ParentsOf(joints, S) \cup AncestorsWithin(joints, ParentsOf(joints, S), k - 1)

\* The skeletons of the data model: every joint has a parent index, negative
\* for a root, and no joint is its own ancestor; a parent may come after
\* its child
Skeletons ==
    UNION {{[num_joints |-> n, joints |-> p] :
              p \in {q \in [0..(n - 1) -> (0 - 1)..(n - 1)] :
                       \A j \in 0..(n - 1) : j \notin AncestorsWithin(q, {j}, n)}} :
           n \in 1..MaxJoints}

\* The fields of an entity with its anim_private: the skeleton, its
\* inv_bind_poses and the array that A_GetRenderState fills
WithSkeleton(ent, skel) ==
    [mem |-> ent.mem, flags |-> ent.flags, ctx |-> ent.ctx, faction_id |-> ent.faction_id,
     skel |-> skel,
     inv_bind_poses |-> [i \in 0..(skel.num_joints - 1) |->
                            PFM_Mat4x4_Inverse(PFM_Mat4x4_Identity)],
     curr_pose |-> [j \in 0..(skel.num_joints - 1) |-> PFM_Mat4x4_Identity]]

\* The entities are instances of one model
InitSkel ==
    /\ InitCommon
    /\ \E skel \in Skeletons :
         entities = [e \in Ents |-> WithSkeleton(InitEntity(AnimatedUnit), skel)]

Do_A_GetRenderState ==
    /\ \E e \in Ents : EventCall("A_GetRenderState", A_GetRenderState(World, e))
    /\ UNCHANGED ghostVars

Do_A_PrepareInvBindMatrices ==
    /\ \E e \in Ents :
         EventCall("A_PrepareInvBindMatrices", A_PrepareInvBindMatrices(World, e))
    /\ UNCHANGED ghostVars

NextSkel ==
    \/ Tick
    \/ Do_A_Update
    \/ Do_E_ServiceQueue
    \/ Do_A_GetRenderState
    \/ Do_A_PrepareInvBindMatrices

SpecSkel == InitSkel /\ [][NextSkel]_vars

(***************************************************************************)
(* The depth pass: the simulation thread runs the ticks of a scene and     *)
(* waits at the start of a tick for the render thread, which pops the      *)
(* commands of the workspace handed to it and calls their functions.       *)
(***************************************************************************)
R_ExecGL ==
    /\ ~aborted
    /\ r_pc = "exec"
    /\ LET r == R_Call(r_cmd.func, s_depth_pass_active) IN
         /\ aborted' = ~r.ok
         /\ s_depth_pass_active' = IF r.ok THEN r.active ELSE s_depth_pass_active
    /\ r_cmd' = NoCmd
    /\ r_pc' = IF s_gs.ws[r_ws].commands = <<>> THEN "idle" ELSE "drain"
    /\ last_call' = "R_ExecGL"
    /\ hlog' = <<>> /\ dlog' = <<>> /\ enq' = <<>> /\ rlog' = <<>>
    /\ UNCHANGED <<s_gs, r_ws, entities, s_event_handler_table, s_event_queue, ticks,
                   sim_pc, ghostVars>>

\* The tick starts when the render thread has finished the last frame
Do_G_UpdateFrame ==
    /\ r_pc = "idle"
    /\ Do_G_UpdateScene

NextShadow ==
    \/ Do_G_AddEntityAny
    \/ Do_G_UpdateFrame
    \/ Do_G_RenderScene
    \/ Do_G_SwapBuffers
    \/ R_Begin
    \/ R_Pop
    \/ R_ExecGL

SpecShadow == InitScene /\ [][NextShadow]_vars

(***************************************************************************)
(* Faction operations: every faction operation is called with ids in and   *)
(* out of range.                                                           *)
(***************************************************************************)
Do_G_UpdateFaction ==
    \E faction_id \in FacIdMenu, name \in {"green", LongName},
       control \in BOOLEAN, oob \in OutOfBoundsOutcomes :
        /\ ~aborted
        /\ LET r == G_UpdateFaction(World, faction_id, name, control, oob) IN
           SimCall(IF r.ret THEN "G_UpdateFaction"
                   ELSE IF r.w.aborted THEN "fault"
                   ELSE Refused("G_UpdateFaction"), r.w)
        /\ UNCHANGED <<sim_pc, ghostVars>>

Do_G_GetDiplomacyState ==
    \E fac_id_a, fac_id_b \in FacIdMenu :
        FactionCall("G_GetDiplomacyState",
                    G_GetDiplomacyState(World, fac_id_a, fac_id_b))

NextFactionOps ==
    \/ Do_G_AddFaction
    \/ Do_G_RemoveFaction
    \/ Do_G_UpdateFaction
    \/ Do_G_SetDiplomacyState
    \/ Do_G_GetDiplomacyState

SpecFactionOps == InitFaction /\ [][NextFactionOps]_vars

(***************************************************************************)
(* Scene loading: scene files, well formed or not, are loaded into the     *)
(* world, and entities and factions are removed from it.                   *)
(***************************************************************************)
MaxSceneItems == 2

\* The sequences over S of at most n elements
RECURSIVE SeqUpTo(_, _)
SeqUpTo(S, n) ==
    IF n = 0 THEN {<<>>}
    ELSE SeqUpTo(S, n - 1) \cup {Append(q, x) : q \in SeqUpTo(S, n - 1), x \in S}

\* A file that does not open, one whose first line is malformed, and the
\* files with their faction items, with and without their entity items
SceneFile(opens, num_factions_line, factions, num_entities_line, items) ==
    [opens |-> opens, num_factions_line |-> num_factions_line, factions |-> factions,
     num_entities_line |-> num_entities_line, entities |-> items]

SceneFiles ==
    {SceneFile(FALSE, FALSE, <<>>, FALSE, <<>>), SceneFile(TRUE, FALSE, <<>>, FALSE, <<>>)}
    \cup {SceneFile(TRUE, TRUE, f, FALSE, <<>>) :
            f \in SeqUpTo(FactionNames \cup {MALFORMED}, MaxSceneItems)}
    \cup {SceneFile(TRUE, TRUE, f, TRUE, e) :
            f \in SeqUpTo(FactionNames \cup {MALFORMED}, MaxSceneItems),
            e \in SeqUpTo({ENTITY_OK, ENTITY_NO_OBJECT, MALFORMED}, MaxSceneItems)}

Do_Scene_Load ==
    \E file \in SceneFiles : FactionCall("Scene_Load", Scene_Load(World, file))

Do_G_RemoveEntityLoaded ==
    /\ ~aborted
    /\ \E e \in s_gs.active : SimCall("G_RemoveEntity", G_RemoveEntity(World, e).w)
    /\ UNCHANGED <<sim_pc, ghostVars>>

NextLoad ==
    \/ Do_Scene_Load
    \/ Do_G_RemoveEntityLoaded
    \/ Do_G_RemoveFaction

SpecLoad == InitFaction /\ [][NextLoad]_vars

(***************************************************************************)
(* Culling: entities with and without the collision flag are added and     *)
(* removed, clips are set in every mode, the clock advances and G_Update   *)
(* rebuilds the two visible sets, the frustum tests keeping any subset.    *)
(***************************************************************************)
CullFlagMenu == FlagMenu \cup {{ENTITY_FLAG_ANIMATED}}

InitCull ==
    /\ InitCommon
    /\ \E f \in [Ents -> CullFlagMenu] : entities = [e \in Ents |-> InitEntity(f[e])]

Do_G_UpdateCull ==
    /\ \E cam_in \in SUBSET Ents, light_in \in SUBSET Ents :
         LET w == G_Update(World, cam_in, light_in) IN
           /\ Len(w.q) <= MaxQueue
           /\ EventCall("G_Update", w)
    /\ UNCHANGED ghostVars

NextCull ==
    \/ Tick
    \/ Do_G_AddEntity
    \/ Do_G_RemoveEntity
    \/ Do_A_SetActiveClip
    \/ Do_G_UpdateCull
    \/ Do_E_ServiceQueue

SpecCull == InitCull /\ [][NextCull]_vars

(***************************************************************************)
(* The lifecycle: after G_Init the main loop runs ticks, the render thread *)
(* drains each frame, and G_Shutdown ends the program between two ticks.   *)
(***************************************************************************)
Do_G_Shutdown ==
    /\ ~aborted
    /\ RenderDone
    /\ sim_pc = "update"
    /\ \E uad \in UseAfterDestroyOutcomes :
         SimCall("G_Shutdown", G_Shutdown(World, uad))
    /\ sim_pc' = "exit"
    /\ UNCHANGED ghostVars

NextLifecycle ==
    \/ Do_G_AddEntityAny
    \/ Do_G_UpdateScene
    \/ Do_G_RenderScene
    \/ Do_G_SwapBuffers
    \/ R_Drain
    \/ Do_G_Shutdown

SpecLifecycle == InitScene /\ [][NextLifecycle]_vars

(***************************************************************************)
(* Events from scripts: handlers are registered and unregistered, scripts  *)
(* notify events whose argument is an object they hold a reference to, and *)
(* the event queue is serviced.                                            *)
(***************************************************************************)
ScriptArgs == {"obj_a", "obj_b"}

Do_S_Global_Notify ==
    /\ Len(s_event_queue) < MaxQueue
    /\ \E ev \in EvMenu, arg \in ScriptArgs :
         EventCall("E_Global_Notify", E_Global_Notify(World, ev, arg, ES_SCRIPT))
    /\ UNCHANGED ghostVars

Do_S_Global_NotifyImmediate ==
    /\ Len(s_event_queue) < MaxQueue
    /\ \E ev \in EvMenu, arg \in ScriptArgs :
         EventCall("E_Global_NotifyImmediate",
                   E_Global_NotifyImmediate(World, ev, arg, ES_SCRIPT))
    /\ UNCHANGED ghostVars

NextScript ==
    \/ Do_E_Global_Register
    \/ Do_E_Global_Unregister
    \/ Do_S_Global_Notify
    \/ Do_S_Global_NotifyImmediate
    \/ Do_E_ServiceQueue

SpecScript == InitAnimated /\ [][NextScript]_vars

(***************************************************************************)
(* Clips set while paused: pausing and resuming, with A_SetActiveClip      *)
(* called on the entities in any simulation state.                         *)
(***************************************************************************)
MaxResumeTicks == 400

TickResume == TickUpTo(MaxResumeTicks)

\* A script starts the attack animation of an entity
Do_A_SetActiveClipAttack ==
    /\ \E e \in Ents :
        /\ ENTITY_FLAG_ANIMATED \in entities[e].flags
        /\ EventCall("A_SetActiveClip",
                     A_SetActiveClip(World, e, "attack", ANIM_MODE_LOOP, 10))
    /\ UNCHANGED ghostVars

NextResume ==
    \/ TickResume
    \/ Do_G_AddEntity
    \/ Do_A_SetActiveClipAttack
    \/ Do_G_UpdatePlay
    \/ Do_G_SetSimStateAny
    \/ Do_E_ServiceQueue

SpecResume == InitAnimated /\ [][NextResume]_vars

(***************************************************************************)
(* Late zombies: the ticks of the scene, with G_Zombiefy called on an      *)
(* active entity between G_Update and G_Render as well.                    *)
(***************************************************************************)
Do_G_ZombiefyLate ==
    /\ ~aborted
    /\ sim_pc \in {"update", "render"}
    /\ \E e \in s_gs.active : SimCall("G_Zombiefy", G_Zombiefy(World, e))
    /\ UNCHANGED <<sim_pc, ghostVars>>

NextLate ==
    \/ Do_G_AddEntityAny
    \/ Do_G_ZombiefyLate
    \/ Do_G_UpdateScene
    \/ Do_G_RenderScene
    \/ Do_G_SwapBuffers
    \/ R_Drain

SpecLate == InitScene /\ [][NextLate]_vars

(***************************************************************************)
(* Deferred frees: G_SafeFree called on any allocated entity, in the       *)
(* active set or not and on the list already or not, with new games and    *)
(* the ticks that drain the list.                                          *)
(***************************************************************************)
MaxDeleted == 2

Do_G_SafeFreeAny ==
    /\ ~aborted
    /\ Len(s_gs.deleted) < MaxDeleted
    /\ \E e \in Ents :
        /\ entities[e].mem = "alloc"
        /\ SimCall("G_SafeFree", G_SafeFree(World, e))
    /\ UNCHANGED <<sim_pc, ghostVars>>

NextFree ==
    \/ Do_G_AddEntity
    \/ Do_G_RemoveEntity
    \/ Do_G_SafeFreeAny
    \/ Do_G_NewGameWithMap
    \/ Do_G_Update
    \/ Do_G_Render
    \/ Do_G_SwapBuffers
    \/ Do_E_ServiceQueue
    \/ R_Drain

SpecFree == Init /\ [][NextFree]_vars

(***************************************************************************)
(* New games: factions and entities are added, and a new game is started   *)
(* from a map file or a map string that parses or does not.  Both          *)
(* functions return true exactly when the map has been parsed.             *)
(***************************************************************************)
Do_G_NewGameWithMapRet ==
    /\ ~aborted
    /\ Len(s_event_queue) < MaxQueue
    /\ \E map_ok \in BOOLEAN :
         SimCall(Returned("G_NewGameWithMap", map_ok),
                 G_NewGameWithMap(World, map_ok))
    /\ UNCHANGED <<sim_pc, ghostVars>>

Do_G_NewGameWithMapString ==
    /\ ~aborted
    /\ Len(s_event_queue) < MaxQueue
    /\ \E map_ok \in BOOLEAN :
         SimCall(Returned("G_NewGameWithMapString", map_ok),
                 G_NewGameWithMapString(World, map_ok))
    /\ UNCHANGED <<sim_pc, ghostVars>>

NextNewGame ==
    \/ Do_G_AddFaction
    \/ Do_G_RemoveFaction
    \/ Do_G_AddEntity
    \/ Do_G_NewGameWithMapRet
    \/ Do_G_NewGameWithMapString
    \/ Do_E_ServiceQueue

SpecNewGame == InitFaction /\ [][NextNewGame]_vars

(***************************************************************************)
(* Properties of the double-buffered workspaces.                           *)
(***************************************************************************)
PendingCmds(i) ==
    s_gs.ws[i].commands \o (IF r_pc = "exec" /\ r_ws = i THEN <<r_cmd>> ELSE <<>>)

C2_NoPendingCommandOnFreedEntity ==
    \A i \in {0, 1} :
        \A k \in 1..Len(PendingCmds(i)) :
            \A a \in Range(PendingCmds(i)[k].args) :
                a.mem = "entity" => entities[a.ent].mem = "alloc"

\* C3: after every G_SwapBuffers the workspace that has become
\* simulation-writable has an empty queue and an empty arena, and the
\* workspace that was simulation-writable is the one G_GetRenderWS returns,
\* with the commands queued in it intact.
C3_SwapPostcondition ==
    [][(last_call' = "G_SwapBuffers" /\ ~aborted') =>
          /\ s_gs'.ws[G_GetSimWS(s_gs')].commands = <<>>
          /\ s_gs'.ws[G_GetSimWS(s_gs')].arena = 0
          /\ G_GetRenderWS(s_gs') = G_GetSimWS(s_gs)
          /\ G_GetSimWS(s_gs') # G_GetSimWS(s_gs)
          /\ s_gs'.ws[G_GetRenderWS(s_gs')] = s_gs.ws[G_GetSimWS(s_gs)]]_vars

C3_Witness ==
    /\ last_call = "G_SwapBuffers"
    /\ ~aborted
    /\ s_gs.curr_ws_idx = 0
    /\ Len(s_gs.ws[G_GetRenderWS(s_gs)].commands) > 2
    /\ s_gs.ws[G_GetRenderWS(s_gs)].arena > 0

\* C4: G_SwapBuffers neither resets a workspace nor flips curr_ws_idx while
\* the queue of the workspace about to become writable is non-empty.
C4_NoSwapBeforeDrained ==
    [][(last_call' = "G_SwapBuffers"
          /\ s_gs.ws[G_GetRenderWS(s_gs)].commands # <<>>) =>
          /\ s_gs'.ws = s_gs.ws
          /\ s_gs'.curr_ws_idx = s_gs.curr_ws_idx]_vars

C4_Witness ==
    /\ last_call = "G_SwapBuffers"
    /\ aborted
    /\ s_gs.ws[G_GetRenderWS(s_gs)].commands # <<>>
    /\ s_gs.ws[G_GetSimWS(s_gs)].commands # <<>>

(***************************************************************************)
(* Properties of the render command producer.                              *)
(***************************************************************************)
QueuedFuncs(i) == {s_gs.ws[i].commands[k].func : k \in 1..Len(s_gs.ws[i].commands)}

\* C5 as stated: every argument of every queued command lies in the arena;
\* no command refers to entity, skeleton or map memory.
C5_EveryArgumentInArena ==
    \A i \in {0, 1} :
        \A k \in 1..Len(s_gs.ws[i].commands) :
            \A a \in Range(s_gs.ws[i].commands[k].args) : a.kind = "arena"

\* The data handed over by address, without a copy
HandedOverByAddress == {"render_private", "inv_bind_pose", "prev_tick_map", "map"}

\* C5, amended: every argument of a queued command is a copy in the arena of
\* the workspace the command is queued in, at a slot of its own below the
\* arena's fill mark, except the render_private handle of an entity, the
\* inv_bind_pose array of its skeleton and the map pointers (prev_tick_map,
\* render_input.map), which are handed over by address.
C5_CopiedExceptHandles ==
    \A i \in {0, 1} :
        LET cmds == s_gs.ws[i].commands
            args == UNION {{<<k, j>> : j \in 1..Len(cmds[k].args)} : k \in 1..Len(cmds)}
            Arg(p) == cmds[p[1]].args[p[2]]
        IN /\ \A p \in args :
                IF Arg(p).data \in HandedOverByAddress
                THEN Arg(p).kind = "raw" /\ Arg(p).mem \in {"entity", "skeleton", "map"}
                ELSE /\ Arg(p).kind = "arena"
                     /\ Arg(p).ws = i
                     /\ Arg(p).slot \in 0..(s_gs.ws[i].arena - 1)
           /\ \A p, q \in args :
                (Arg(p).kind = "arena" /\ Arg(q).kind = "arena" /\ p # q)
                    => Arg(p).slot # Arg(q).slot

C5_Witness ==
    \E i \in {0, 1} :
        /\ {"R_GL_DepthPassBegin", "R_GL_SetAnimUniforms", "R_GL_Draw", "R_GL_DrawWater",
            "R_GL_DrawSelectionCircle", "R_GL_DrawHealthbars", "M_RenderMinimap"}
              \subseteq QueuedFuncs(i)
        /\ s_gs.ws[i].arena > 10

(***************************************************************************)
(* Properties of the event bus.                                            *)
(***************************************************************************)
\* C6: a call of E_ServiceQueue dispatches update-start, then the queued
\* events in the order they were enqueued (those enqueued during the call
\* included, global and entity events alike), then update-ui, then
\* update-end; what is enqueued after the queue ran empty stays queued.
C6_ServiceOrder ==
    [][last_call' = "E_ServiceQueue" =>
         LET n == Len(dlog') IN
         /\ n >= 3
         /\ dlog'[1] = Event(EVENT_UPDATE_START, NULL, ES_ENGINE, GLOBAL_ID)
         /\ dlog'[n - 1] = Event(EVENT_UPDATE_UI, NULL, ES_ENGINE, GLOBAL_ID)
         /\ dlog'[n] = Event(EVENT_UPDATE_END, NULL, ES_ENGINE, GLOBAL_ID)
         /\ SubSeq(dlog', 2, n - 2) \o s_event_queue' = s_event_queue \o enq']_vars

C6_Witness ==
    /\ last_call = "E_ServiceQueue"
    /\ Len(dlog) >= 6
    /\ enq # <<>>
    /\ \E i, j \in 2..(Len(dlog) - 2) :
          /\ i < j
          /\ dlog[i].receiver_id \in Ents
          /\ dlog[j].receiver_id = GLOBAL_ID

\* C7: whenever a handler is invoked, its simmask includes the simulation
\* state of that moment, also when an earlier handler of the same event has
\* changed the simulation state.
C7_MaskIncludesCurrentState ==
    \A i \in 1..Len(hlog) : BitAnd(hlog[i].simmask, hlog[i].ss) # 0

\* The registrations for the key of event ev, in registration order
RegisteredFor(ev) ==
    SelectSeq(registered, LAMBDA r : r.recv = ev.receiver_id /\ r.ev = ev.type)

Stamps(regs) == [i \in 1..Len(regs) |-> regs[i].stamp]

\* The calls logged for dispatch d, as the stamps of their registrations
Invoked(log, d) ==
    LET calls == SelectSeq(log, LAMBDA c : c.d = d)
    IN [i \in 1..Len(calls) |-> calls[i].user_arg]

C9_ImmediateVersusQueued ==
    [][/\ last_call' = "E_Global_NotifyImmediate" =>
            /\ dlog' = <<Event(EVENT_USER_A, NULL, ES_ENGINE, GLOBAL_ID)>>
            /\ s_event_queue' = s_event_queue \o enq'
            /\ Len(enq') <= Len(hlog')
            /\ \A i \in 1..Len(enq') : enq'[i].type # EVENT_USER_A
            /\ hlog' = <<>> <=>
                 \A k \in 1..Len(registered) :
                    (registered[k].recv = GLOBAL_ID /\ registered[k].ev = EVENT_USER_A)
                       => BitAnd(registered[k].simmask, s_gs.ss) = 0
       /\ last_call' \in {"E_Global_Notify", "E_Entity_Notify"} =>
            /\ hlog' = <<>> /\ dlog' = <<>>
            /\ Len(enq') = 1
            /\ s_event_queue' = Append(s_event_queue, enq'[1])
            /\ enq'[1].type = EVENT_USER_A
            /\ enq'[1].receiver_id = GLOBAL_ID <=> last_call' = "E_Global_Notify"
       /\ last_call' # "E_ServiceQueue" =>
            /\ IsPrefix(s_event_queue, s_event_queue')
            /\ dlog' # <<>> => last_call' = "E_Global_NotifyImmediate"]_vars

C9_Witness ==
    /\ last_call = "E_Global_NotifyImmediate"
    /\ Len(hlog) = 2
    /\ Len(s_event_queue) = 1
    /\ enq = <<>>

(***************************************************************************)
(* Properties of the animation sampler.                                    *)
(***************************************************************************)
\* Milliseconds since the current frame of e started, on the unsigned clock
ElapsedTicks(e) == (ticks - entities[e].ctx.curr_frame_start_ticks) % UINT32_MOD

\* C10: a call of A_Update on an entity for which less than 1/key_fps
\* seconds have elapsed since its current frame started changes neither
\* curr_frame nor the frame-start timestamp, the active clip, the mode or
\* anything else of the entity, and queues no event for it.
C10_NoAdvanceWithinFramePeriod ==
    [][last_call' = "A_Update" =>
         \A e \in Ents :
            ElapsedTicks(e) * entities[e].ctx.key_fps < 1000 =>
               /\ entities'[e] = entities[e]
               /\ \A i \in 1..Len(enq') : enq'[i].receiver_id # e]_vars

C10_Witness ==
    /\ last_call = "A_Update"
    /\ entities[1].ctx.curr_frame = 1
    /\ ElapsedTicks(1) > 0
    /\ ElapsedTicks(1) * entities[1].ctx.key_fps < 1000
    /\ enq = <<>>

(***************************************************************************)
(* Properties of playback.                                                 *)
(***************************************************************************)
\* The EVENT_ANIM_CYCLE_FINISHED notifications for entity e in a sequence of
\* events
CycleFinished(evs, e) ==
    Cardinality({i \in 1..Len(evs) :
        evs[i].type = EVENT_ANIM_CYCLE_FINISHED /\ evs[i].receiver_id = e})

\* C11: a clip of N frames played at key_fps K from frame 0 at tick 0 is
\* back at frame 0 after N/K seconds of advancement, with exactly one
\* EVENT_ANIM_CYCLE_FINISHED emitted for the entity: the G_Update made
\* N/K seconds after the start, on an entity that entered the last frame
\* of the clip at an earlier tick, wraps the frame to 0 and emits the one
\* notification.
C11_BackAtFrameZeroAfterNOverK ==
    [][\A e \in s_gs.active :
         LET ctx == entities[e].ctx
             N == AnimClips[ctx.active].num_frames
         IN (/\ last_call' = "G_Update"
             /\ s_gs.ss = G_RUNNING
             /\ ENTITY_FLAG_ANIMATED \in entities[e].flags
             /\ ctx.curr_frame = N - 1
             /\ ctx.curr_frame_start_ticks < ticks
             /\ ticks * ctx.key_fps = N * 1000)
            => /\ entities'[e].ctx.curr_frame = 0
               /\ CycleFinished(enq', e) = 1]_vars

\* The scenario's entity: active, animated, playing its 2-frame idle clip in
\* loop mode at key_fps 2, on frame f since tick t
OnIdleFrame(e, f, t) ==
    LET ctx == entities[e].ctx IN
    /\ e \in s_gs.active
    /\ s_gs.ss = G_RUNNING
    /\ ENTITY_FLAG_ANIMATED \in entities[e].flags
    /\ AnimClips[ctx.active].name = "idle" /\ ctx.mode = ANIM_MODE_LOOP
    /\ ctx.key_fps = 2
    /\ ctx.curr_frame = f /\ ctx.curr_frame_start_ticks = t

\* C12: end to end, for an animated entity E initialised at tick 0 with a
\* 2-frame idle clip at key_fps 2: the G_Update at 0.4 s leaves the frame
\* unchanged, the G_Update at 0.6 s makes it 1, the G_Update at 1.1 s wraps
\* it to 0 and queues EVENT_ANIM_CYCLE_FINISHED for E, and the next
\* E_ServiceQueue delivers a queued cycle-finished event of E to every
\* handler registered for it.
C12_IdleClipEndToEnd ==
    [][\A e \in Ents :
         /\ (last_call' = "G_Update" /\ ticks = 400 /\ OnIdleFrame(e, 0, 0))
              => entities'[e].ctx = entities[e].ctx
         /\ (last_call' = "G_Update" /\ ticks = 600 /\ OnIdleFrame(e, 0, 0))
              => entities'[e].ctx.curr_frame = 1
         /\ (last_call' = "G_Update" /\ ticks = 1100 /\ OnIdleFrame(e, 1, 600))
              => /\ entities'[e].ctx.curr_frame = 0
                 /\ CycleFinished(enq', e) = 1
                 /\ CycleFinished(s_event_queue', e) >= 1
         /\ (last_call' = "E_ServiceQueue" /\ CycleFinished(s_event_queue, e) >= 1)
              => \A i \in 1..Len(registered) :
                    (registered[i].recv = e /\ registered[i].ev = EVENT_ANIM_CYCLE_FINISHED)
                    => \E j \in 1..Len(hlog') :
                          /\ hlog'[j].user_arg = registered[i].stamp
                          /\ hlog'[j].event = EVENT_ANIM_CYCLE_FINISHED
                          /\ hlog'[j].receiver_id = e]_vars

(***************************************************************************)
(* Properties of the animation sampler.                                    *)
(***************************************************************************)
\* C13: an A_Update that wraps the frame index to 0 queues
\* EVENT_ANIM_CYCLE_FINISHED for the entity; in once and once-then-hide mode
\* it queues EVENT_ANIM_FINISHED after it, sets the invisible flag only in
\* once-then-hide mode and leaves the idle clip active in loop mode at
\* frame 0; in loop mode it queues no EVENT_ANIM_FINISHED and changes
\* neither clip nor mode.
C13_WrapNotifications ==
    [][\A e \in Ents :
         LET ctx == entities[e].ctx
             new == entities'[e].ctx
             cycle == Event(EVENT_ANIM_CYCLE_FINISHED, NULL, ES_ENGINE, e)
             finished == Event(EVENT_ANIM_FINISHED, NULL, ES_ENGINE, e)
         IN (/\ last_call' = "A_Update"
             /\ ctx.curr_frame = AnimClips[ctx.active].num_frames - 1
             /\ entities'[e] # entities[e])
            => /\ new.curr_frame = 0
               /\ s_event_queue' = s_event_queue \o enq'
               /\ IF ctx.mode = ANIM_MODE_LOOP
                  THEN /\ enq' = <<cycle>>
                       /\ new.active = ctx.active /\ new.mode = ANIM_MODE_LOOP
                       /\ entities'[e].flags = entities[e].flags
                  ELSE /\ enq' = <<cycle, finished>>
                       /\ new.active = ctx.idle /\ new.mode = ANIM_MODE_LOOP
                       /\ entities'[e].flags =
                            IF ctx.mode = ANIM_MODE_ONCE_HIDE_ON_FINISH
                            THEN entities[e].flags \cup {ENTITY_FLAG_INVISIBLE}
                            ELSE entities[e].flags]_vars

\* A once clip has just wrapped: both notifications queued, the entity not
\* hidden
C13_Witness ==
    /\ last_call = "A_Update"
    /\ Len(enq) = 2
    /\ enq[2].type = EVENT_ANIM_FINISHED
    /\ ENTITY_FLAG_INVISIBLE \notin entities[enq[2].receiver_id].flags

(***************************************************************************)
(* Properties of pausing.                                                  *)
(***************************************************************************)
\* C14: when the simulation re-enters G_RUNNING at tick t2, having left it
\* at tick t1 and passed through any number of non-running states, the
\* frame-start timestamp of every animated active entity is shifted forward
\* by the whole paused duration t2 - t1.
C14_ShiftedByWholePause ==
    [][(/\ last_call' = "G_SetSimState"
        /\ s_gs.ss # G_RUNNING
        /\ s_gs'.ss = G_RUNNING)
       => \A e \in s_gs.active :
            ENTITY_FLAG_ANIMATED \in entities[e].flags
            => entities'[e].ctx.curr_frame_start_ticks =
                 (entities[e].ctx.curr_frame_start_ticks + (ticks - paused_at))
                     % UINT32_MOD]_vars

(***************************************************************************)
(* Properties of the scene.                                                *)
(***************************************************************************)
\* Number of positions of sequence s that hold e
Occurrences(s, e) == Cardinality({i \in 1..Len(s) : s[i] = e})

\* stat and anim split the visible list vis by the animated flag
SplitByAnimatedFlag(vis, stat, anim) ==
    /\ \A e \in DOMAIN entities :
         /\ Occurrences(stat, e) + Occurrences(anim, e) = Occurrences(vis, e)
         /\ e \in Range(vis)
              => /\ (e \in Range(stat)) # (e \in Range(anim))
                 /\ (e \in Range(anim)) <=> (ENTITY_FLAG_ANIMATED \in entities[e].flags)
    /\ Len(stat) + Len(anim) = Len(vis)

\* C15: in the render input g_create_render_input produces, every entity of
\* the camera-visible list, and likewise of the light-visible list, is in
\* exactly one of the static and animated lists, in the animated list iff
\* its animated flag is set, so that the two lengths add up to the length of
\* the visible list and the asserts of g_create_render_input hold.
C15_DrawListsSplitVisible ==
    \A shadows \in BOOLEAN :
        LET in == g_create_render_input(World, shadows) IN
        /\ SplitByAnimatedFlag(s_gs.visible, in.cam_vis_stat, in.cam_vis_anim)
        /\ SplitByAnimatedFlag(s_gs.light_visible, in.light_vis_stat, in.light_vis_anim)
        /\ in.ok

\* G_Render has just run with an animated and a static entity both visible
\* to the camera
C15_Witness ==
    /\ last_call = "G_Render"
    /\ ~aborted
    /\ \E a, b \in Range(s_gs.visible) :
         /\ ENTITY_FLAG_ANIMATED \in entities[a].flags
         /\ ENTITY_FLAG_ANIMATED \notin entities[b].flags

\* Positions of the commands cmds whose function is one of fs
At(cmds, fs) == {i \in 1..Len(cmds) : cmds[i].func \in fs}

DepthPassFuncs == {"R_GL_DepthPassBegin", "R_GL_RenderDepthMap", "R_GL_DepthPassEnd"}

ScreenspaceFuncs == {"R_GL_SetScreenspaceDrawMode", "UI_Render", "R_GL_DrawHealthbars"}

\* C16: in the commands G_Render enqueues for one tick the depth-pass
\* commands all precede the draw-pass commands, which all precede the
\* screen-space mode switch, the UI commands and the healthbar command;
\* the depth pass is there iff shadows are enabled, with one depth-map
\* command per light-visible entity, and there is one draw per
\* camera-visible entity.
C16_RenderCommandOrder ==
    \A shadows, healthbars \in BOOLEAN :
        LET w == G_Render(World, shadows, healthbars, AllSelected(World))
            before == s_gs.ws[G_GetSimWS(s_gs)].commands
            after == w.gs.ws[G_GetSimWS(w.gs)].commands
            cmds == SubSeq(after, Len(before) + 1, Len(after))
            depth == At(cmds, DepthPassFuncs)
            draw == At(cmds, {"R_GL_Draw"})
            screen == At(cmds, ScreenspaceFuncs)
        IN ~w.aborted
           => /\ IsPrefix(before, after)
              /\ \A i \in depth, j \in draw : i < j
              /\ \A j \in depth \cup draw, k \in screen : j < k
              /\ shadows
                   => /\ Cardinality(At(cmds, {"R_GL_DepthPassBegin"})) = 1
                      /\ Cardinality(At(cmds, {"R_GL_DepthPassEnd"})) = 1
                      /\ Cardinality(At(cmds, {"R_GL_RenderDepthMap"}))
                           = Len(s_gs.light_visible)
              /\ ~shadows => depth = {}
              /\ Cardinality(draw) = Len(s_gs.visible)
              /\ Cardinality(At(cmds, {"R_GL_SetScreenspaceDrawMode"})) = 1
              /\ Cardinality(At(cmds, {"R_GL_DrawHealthbars"}))
                   = IF healthbars THEN 1 ELSE 0

\* G_Render has just enqueued a depth pass and a draw pass of two entities
\* each, a UI command and the healthbars
C16_Witness ==
    LET cmds == s_gs.ws[G_GetSimWS(s_gs)].commands IN
    /\ last_call = "G_Render"
    /\ ~aborted
    /\ Cardinality(At(cmds, {"R_GL_RenderDepthMap"})) = 2
    /\ Cardinality(At(cmds, {"R_GL_Draw"})) = 2
    /\ At(cmds, {"UI_Render"}) # {}
    /\ At(cmds, {"R_GL_DrawHealthbars"}) # {}

\* C19: after any sequence of G_AddEntity, G_RemoveEntity and G_Zombiefy
\* calls the dynamic set is a subset of the active set and an active entity
\* is in the dynamic set iff its static flag is clear; G_AddEntity of an
\* active id returns false and changes neither set, G_RemoveEntity of an id
\* that is not active returns false and changes neither set.
C19_DynamicIsActiveNonStatic ==
    /\ s_gs.dynamic \subseteq s_gs.active
    /\ \A e \in s_gs.active :
         (e \in s_gs.dynamic) <=> (ENTITY_FLAG_STATIC \notin entities[e].flags)
    /\ \A e \in DOMAIN entities :
         IF e \in s_gs.active
         THEN LET r == G_AddEntity(World, e) IN
              /\ ~r.ret
              /\ r.w.gs.active = s_gs.active /\ r.w.gs.dynamic = s_gs.dynamic
         ELSE LET r == G_RemoveEntity(World, e) IN
              /\ ~r.ret
              /\ r.w.gs.active = s_gs.active /\ r.w.gs.dynamic = s_gs.dynamic

\* G_Zombiefy has just made an active entity a zombie while another entity
\* is active and dynamic
C19_Witness ==
    /\ last_call = "G_Zombiefy"
    /\ ~aborted
    /\ \E e \in s_gs.active : ENTITY_FLAG_ZOMBIE \in entities[e].flags
    /\ s_gs.dynamic # {}

(***************************************************************************)
(* Properties of the factions.                                             *)
(***************************************************************************)
\* C17: after any sequence of G_AddFaction, G_RemoveFaction,
\* G_SetDiplomacyState and game resets the diplomacy table is symmetric on
\* every pair of distinct existing faction ids.
C17_DiplomacySymmetric ==
    \A a, b \in FacIdx :
        (a < s_gs.num_factions /\ b < s_gs.num_factions /\ a # b)
        => s_gs.diplomacy_table[a][b] = s_gs.diplomacy_table[b][a]

\* A faction has just been removed and the two factions left are at war
C17_Witness ==
    /\ last_call = "G_RemoveFaction"
    /\ s_gs.num_factions = 2
    /\ s_gs.diplomacy_table[0][1] = DIPLOMACY_STATE_WAR

\* C18: a successful G_RemoveFaction(f) removes every active entity of
\* faction f from the registry, renumbers the faction id g of every other
\* active entity to g - 1 if g > f and leaves it otherwise, compacts the
\* faction array the same way, and keeps the diplomacy state of every pair
\* of surviving factions under their new ids.
C18_RemoveFactionRenumbers ==
    \A f \in FacIdMenu :
        LET r == G_RemoveFaction(World, f)
            old == s_gs
            new == r.w.gs
            NewId(g) == IF g > f THEN g - 1 ELSE g
            Survivors == (0..(old.num_factions - 1)) \ {f}
        IN r.ret
           => /\ \A e \in old.active :
                   IF entities[e].faction_id = f
                   THEN e \notin new.active /\ e \notin new.dynamic
                   ELSE /\ e \in new.active
                        /\ r.w.ent[e].faction_id = NewId(entities[e].faction_id)
              /\ new.active \subseteq old.active
              /\ new.num_factions = old.num_factions - 1
              /\ \A a \in Survivors : new.factions[NewId(a)] = old.factions[a]
              /\ \A a, b \in Survivors :
                   a # b => new.diplomacy_table[NewId(a)][NewId(b)]
                              = old.diplomacy_table[a][b]

\* The first of three factions has just been removed: its entity is out of
\* the registry, the entity of the second faction is renumbered, and the
\* two factions left, of different names, are at war
C18_Witness ==
    /\ last_call = "G_RemoveFaction"
    /\ s_gs.num_factions = 2
    /\ s_gs.factions[0].name # s_gs.factions[1].name
    /\ s_gs.diplomacy_table[1][0] = DIPLOMACY_STATE_WAR
    /\ 1 \notin s_gs.active /\ 1 \notin Range(s_gs.deleted)
    /\ 2 \in s_gs.active /\ entities[2].faction_id = 0

(***************************************************************************)
(* Properties of failed clip requests.                                     *)
(***************************************************************************)
\* C20: A_SetActiveClip and A_InitCtx called with a clip name the entity
\* does not have end in a failed assertion, and the failed request changes
\* nothing of the animation context (active clip, idle clip, mode, key rate,
\* frame): no other clip is taken in place of the missing one.
C20_UnknownClipIsFatal ==
    /\ \A e \in Ents, name \in ClipNameMenu \ ClipNames, key_fps \in KeyFpsMenu :
         /\ \A mode \in AnimModes :
              LET w == A_SetActiveClip(World, e, name, mode, key_fps) IN
              w.aborted /\ w.ent = entities
         /\ LET w == A_InitCtx(World, e, name, key_fps) IN
            w.aborted /\ w.ent = entities
    /\ (aborted /\ last_call \in {"A_SetActiveClip", "A_InitCtx"})
         => \A e \in Ents :
              /\ entities[e].ctx.active \in 1..Len(AnimClips)
              /\ entities[e].ctx.idle \in 1..Len(AnimClips)

\* A request for a missing clip has just failed on an entity that is on
\* frame 1 of its once-mode attack clip
C20_Witness ==
    /\ aborted
    /\ last_call = "A_SetActiveClip"
    /\ \E e \in Ents :
         /\ AnimClips[entities[e].ctx.active].name = "attack"
         /\ entities[e].ctx.mode = ANIM_MODE_ONCE
         /\ entities[e].ctx.curr_frame = 1

(***************************************************************************)
(* Properties of faction ids out of range.                                 *)
(***************************************************************************)
OutOfRange(f) == f < 0 \/ f >= s_gs.num_factions

C22_FailedLoadChangesNothing ==
    [][last_call' = Refused("Scene_Load") =>
         /\ s_gs'.num_factions = s_gs.num_factions
         /\ s_gs'.factions = s_gs.factions
         /\ s_gs'.diplomacy_table = s_gs.diplomacy_table
         /\ s_gs'.active = s_gs.active
         /\ s_gs'.dynamic = s_gs.dynamic]_vars

(***************************************************************************)
(* Properties of a frame that cannot be completed.                         *)
(***************************************************************************)
\* The commands G_Render enqueues for the frame when every push succeeds
FullFrame(shadows, healthbars) ==
    LET i == G_GetSimWS(s_gs)
        w == G_Render(World, shadows, healthbars, AllSelected(World))
    IN SubSeq(w.gs.ws[i].commands, Len(s_gs.ws[i].commands) + 1,
              Len(w.gs.ws[i].commands))

\* C23: a G_Render step, failed or not, leaves in the workspace of the tick
\* either the whole command sequence of the frame or none of it.
C23_FrameAllOrNothing ==
    [][last_call' = "G_Render" =>
         LET i == G_GetSimWS(s_gs)
             old == s_gs.ws[i].commands
             new == s_gs'.ws[i].commands
         IN \/ new = old
            \/ \E shadows, healthbars \in BOOLEAN :
                 new = old \o FullFrame(shadows, healthbars)]_vars

LocalTransform(clip, frame, j) ==
    <<[pose |-> <<clip, frame>>, joint |-> j, part |-> "trans"],
      [pose |-> <<clip, frame>>, joint |-> j, part |-> "rot"],
      [pose |-> <<clip, frame>>, joint |-> j, part |-> "scale"]>>

\* C25: the pose matrices that A_GetRenderState computes for an entity obey
\* the recursive law: the matrix of a root is its local transform in the
\* current frame, the matrix of any other joint is the matrix of its parent
\* times its own local transform.
C25_PoseIsParentPoseTimesLocal ==
    \A e \in Ents :
      LET ent == entities[e]
          curr_pose == A_GetRenderState(World, e).ent[e].curr_pose
          local(j) == LocalTransform(ent.ctx.active, ent.ctx.curr_frame, j)
      IN \A j \in 0..(ent.skel.num_joints - 1) :
           curr_pose[j] = IF ent.skel.joints[j] < 0 THEN local(j)
                          ELSE curr_pose[ent.skel.joints[j]] \o local(j)

\* The pose of a chain of three joints, joint 1 the root and joint 0 the
\* leaf, has been computed in the second frame of the clip
C25_Witness ==
    /\ last_call = "A_GetRenderState"
    /\ \E e \in Ents :
         /\ entities[e].skel.num_joints = 3
         /\ entities[e].skel.joints =
              [j \in 0..2 |-> IF j = 0 THEN 2 ELSE IF j = 1 THEN 0 - 1 ELSE 1]
         /\ entities[e].ctx.curr_frame = 1
         /\ Len(entities[e].curr_pose[0]) = 9

(***************************************************************************)
(* Properties of one call of A_Update.                                     *)
(***************************************************************************)
\* C26: A_Update on an animated entity advances curr_frame by exactly one
\* frame, modulo the length of the clip, and sets the frame-start timestamp
\* to the current tick if the time elapsed since the frame started strictly
\* exceeds 1/key_fps seconds, however many frame periods have elapsed; it
\* leaves the frame and the timestamp alone if not.
C26_AtMostOneFramePerCall ==
    \A e \in Ents :
      ENTITY_FLAG_ANIMATED \in entities[e].flags =>
        LET ctx == entities[e].ctx
            new == A_Update(World, e).ent[e].ctx
            N == AnimClips[ctx.active].num_frames
        IN IF ElapsedTicks(e) * ctx.key_fps > 1000
           THEN /\ new.curr_frame = (ctx.curr_frame + 1) % N
                /\ new.curr_frame_start_ticks = ticks
           ELSE /\ new.curr_frame = ctx.curr_frame
                /\ new.curr_frame_start_ticks = ctx.curr_frame_start_ticks

\* A_Update has just advanced a clip played at 10 frames a second to frame
\* 1 at tick 500: five frame periods after the clip was set, at the least
C26_Witness ==
    /\ last_call = "A_Update"
    /\ ticks = 500
    /\ \E e \in Ents :
         /\ entities[e].ctx.key_fps = 10
         /\ entities[e].ctx.curr_frame = 1
         /\ entities[e].ctx.curr_frame_start_ticks = 500

(***************************************************************************)
(* Properties of the depth pass.                                           *)
(***************************************************************************)
\* C27: the render thread, executing the commands of frame after frame, is
\* never about to call R_GL_DepthPassBegin with a depth pass active, nor
\* R_GL_DepthPassEnd or R_GL_RenderDepthMap without one, no call of a
\* command has failed an assert, and no depth pass is active when the
\* thread has finished a frame.
C27_DepthPassAssertsHold ==
    /\ r_pc = "exec" => R_Call(r_cmd.func, s_depth_pass_active).ok
    /\ ~(aborted /\ last_call = "R_ExecGL")
    /\ r_pc = "idle" => ~s_depth_pass_active

\* The render thread has just drawn an entity into the depth map and finds
\* R_GL_DepthPassEnd next in the queue, in a frame after the first
C27_Witness ==
    /\ last_call = "R_ExecGL"
    /\ s_depth_pass_active
    /\ r_pc = "drain"
    /\ Head(s_gs.ws[r_ws].commands).func = "R_GL_DepthPassEnd"
    /\ r_ws = 1

(***************************************************************************)
(* Properties of the visible sets.                                         *)
(***************************************************************************)
\* C28: after G_Update the camera-visible and the light-visible sets hold
\* each entity at most once and only entities that are active, have the
\* collision flag and do not have the invisible flag; an entity that gets
\* the invisible flag during this G_Update is in neither set.
C28_VisibleSetsRebuilt ==
    [][last_call' = "G_Update" =>
         LET cam == s_gs.visible'
             light == s_gs.light_visible'
             seen == Range(cam) \cup Range(light)
         IN /\ Len(cam) = Cardinality(Range(cam))
            /\ Len(light) = Cardinality(Range(light))
            /\ \A e \in seen :
                 /\ e \in s_gs.active'
                 /\ ENTITY_FLAG_COLLISION \in entities'[e].flags
                 /\ ENTITY_FLAG_INVISIBLE \notin entities'[e].flags
            /\ \A e \in Ents :
                 /\ ENTITY_FLAG_INVISIBLE \notin entities[e].flags
                 /\ ENTITY_FLAG_INVISIBLE \in entities'[e].flags
                 => e \notin seen]_vars

\* G_Update has just finished the once-then-hide clip of an entity that was
\* in both sets: the entity is hidden and both sets are empty
C28_Witness ==
    /\ last_call = "G_Update"
    /\ \E e \in s_gs.active :
         /\ ENTITY_FLAG_COLLISION \in entities[e].flags
         /\ ENTITY_FLAG_INVISIBLE \in entities[e].flags
         /\ \E i \in DOMAIN enq : /\ enq[i].type = EVENT_ANIM_FINISHED
                                  /\ enq[i].receiver_id = e
    /\ s_gs.visible = <<>>
    /\ s_gs.light_visible = <<>>

(***************************************************************************)
(* Properties of unregistering a handler.                                  *)
(***************************************************************************)
\* The positions of the descriptors of handler h in vec
DescriptorsOf(vec, h) ==
    {i \in 1..Len(vec) : vec[i].type = HANDLER_TYPE_ENGINE /\ vec[i].handler = h}

\* C29: unregistering handler h from a (receiver, event type) key that
\* holds a descriptor of h deletes the earliest such descriptor and no
\* other, leaves every other key alone and returns true; with no list for
\* the key or no descriptor of h in it, it returns false and the table is
\* unchanged.  The key holds as many descriptors of h as h was registered
\* under it and not yet unregistered, and an event dispatched to the key
\* invokes h once for each of them whose mask admits the simulation state.
C29_UnregisterRemovesEarliest ==
    \A recv \in {GLOBAL_ID} \cup Ents, ev \in EvMenu, h \in RegHandlers :
      LET tbl == s_event_handler_table
          key == e_key(recv, ev)
          vec == IF key \in DOMAIN tbl THEN tbl[key] ELSE <<>>
          hits == DescriptorsOf(vec, h)
          r == e_unregister_handler(tbl, key,
                                    HandlerDesc(HANDLER_TYPE_ENGINE, h, NULL, 0))
          log == e_handle_event(World, Event(ev, NULL, ES_ENGINE, recv)).hlog
      IN /\ IF hits = {}
            THEN ~r.ret /\ r.tbl = tbl
            ELSE LET m == CHOOSE i \in hits : \A j \in hits : i <= j
                 IN /\ r.ret
                    /\ DOMAIN r.tbl = DOMAIN tbl
                    /\ \A k \in DOMAIN tbl \ {key} : r.tbl[k] = tbl[k]
                    /\ r.tbl[key] = SubSeq(vec, 1, m - 1) \o SubSeq(vec, m + 1, Len(vec))
         /\ Cardinality(hits) =
               Cardinality({i \in 1..Len(registered) :
                              /\ registered[i].recv = recv
                              /\ registered[i].ev = ev
                              /\ registered[i].handler = h})
         /\ Cardinality({i \in 1..Len(log) : log[i].handler = h}) =
               Cardinality({i \in hits : BitAnd(vec[i].simmask, s_gs.ss) # 0})

\* An unregistration has just returned true and left the second of two
\* registrations in the list of its key: the first is the one deleted
C29_Witness ==
    /\ last_call = "E_Global_Unregister"
    /\ reg_stamp = 2
    /\ \E ev \in EvMenu :
         LET key == e_key(GLOBAL_ID, ev) IN
           /\ key \in DOMAIN s_event_handler_table
           /\ Len(s_event_handler_table[key]) = 1
           /\ s_event_handler_table[key][1].user_arg = 2

(***************************************************************************)
(* Properties of adding a faction.                                         *)
(***************************************************************************)
\* C30: a G_AddFaction that returns true makes the faction with the next
\* free id and leaves it at peace, in both directions, with every faction
\* that existed before, whatever the diplomacy table held; a G_AddFaction
\* called with MAX_FACTIONS factions returns false and changes nothing of
\* the game state.
C30_NewFactionAtPeace ==
    [][/\ last_call' = "G_AddFaction" =>
            LET new_fac_id == s_gs.num_factions IN
              /\ s_gs'.num_factions = new_fac_id + 1
              /\ \A i \in 0..(new_fac_id - 1) :
                   /\ s_gs'.diplomacy_table[i][new_fac_id] = DIPLOMACY_STATE_PEACE
                   /\ s_gs'.diplomacy_table[new_fac_id][i] = DIPLOMACY_STATE_PEACE
       /\ (/\ s_gs.num_factions = MaxFactions
           /\ last_call' \in {"G_AddFaction", Refused("G_AddFaction")})
            => /\ last_call' = Refused("G_AddFaction")
               /\ s_gs' = s_gs]_vars

\* G_AddFaction has just made the last faction the table has room for, at
\* peace with the others, two of which are at war
C30_Witness ==
    /\ last_call = "G_AddFaction"
    /\ s_gs.num_factions = MaxFactions
    /\ \A i \in 0..(MaxFactions - 2) :
         /\ s_gs.diplomacy_table[i][MaxFactions - 1] = DIPLOMACY_STATE_PEACE
         /\ s_gs.diplomacy_table[MaxFactions - 1][i] = DIPLOMACY_STATE_PEACE
    /\ s_gs.diplomacy_table[0][1] = DIPLOMACY_STATE_WAR

(***************************************************************************)
(* Properties of zombies.                                                  *)
(***************************************************************************)
\* C31: G_Zombiefy of an active entity leaves the active set, the deferred
\* free list and the entity's memory as they are, takes the entity out of
\* the dynamic set and nothing else, clears the selectable, collision,
\* combatable and animated flags and sets invisible, static and zombie;
\* G_RemoveEntity of an active zombie, right after or at any later point,
\* returns true, takes it out of the active set and leaves the dynamic set
\* as it is.
C31_ZombieStaysActive ==
    ~aborted => \A e \in s_gs.active :
      LET w == G_Zombiefy(World, e)
          r == G_RemoveEntity(w, e)
          now == G_RemoveEntity(World, e)
      IN /\ ~w.aborted
         /\ w.gs.active = s_gs.active
         /\ w.gs.deleted = s_gs.deleted
         /\ w.ent[e].mem = entities[e].mem
         /\ w.gs.dynamic = s_gs.dynamic \ {e}
         /\ w.ent[e].flags \cap {ENTITY_FLAG_SELECTABLE, ENTITY_FLAG_COLLISION,
                                 ENTITY_FLAG_COMBATABLE, ENTITY_FLAG_ANIMATED} = {}
         /\ {ENTITY_FLAG_INVISIBLE, ENTITY_FLAG_STATIC, ENTITY_FLAG_ZOMBIE}
               \subseteq w.ent[e].flags
         /\ r.ret /\ ~r.w.aborted
         /\ r.w.gs.active = s_gs.active \ {e}
         /\ r.w.gs.dynamic = w.gs.dynamic
         /\ ENTITY_FLAG_ZOMBIE \in entities[e].flags
              => /\ now.ret /\ ~now.w.aborted
                 /\ now.w.gs.dynamic = s_gs.dynamic

\* G_Zombiefy has just made a zombie of an active entity that was in the
\* dynamic set: it is active still, allocated, and out of the dynamic set
C31_Witness ==
    /\ last_call = "G_Zombiefy"
    /\ ~aborted
    /\ \E e \in s_gs.active :
         /\ entities[e].flags =
              {ENTITY_FLAG_INVISIBLE, ENTITY_FLAG_STATIC, ENTITY_FLAG_ZOMBIE}
         /\ entities[e].mem = "alloc"
         /\ e \notin s_gs.dynamic
         /\ e \notin Range(s_gs.deleted)

(***************************************************************************)
(* Properties of the lifecycle of the workspaces.                          *)
(***************************************************************************)
\* C32: no render command is pushed into a workspace that has been
\* destroyed: a destroyed workspace never holds a command.
C32_NoPushAfterDestroy ==
    \A i \in s_gs.ws_destroyed : s_gs.ws[i].commands = <<>>

(***************************************************************************)
(* Properties of the arguments of script events.                           *)
(***************************************************************************)
\* C33: the arguments released by a step are the arguments of the events
\* with a script source that the step has handled, one release for each,
\* whether or not a handler is registered for the event.
C33_ScriptArgReleasedOnce ==
    [][LET handled == SelectSeq(dlog', LAMBDA ev : ev.source = ES_SCRIPT)
       IN rlog' = [i \in 1..Len(handled) |-> handled[i].arg]]_vars

(***************************************************************************)
(* Properties of the frame-start timestamp.                                *)
(***************************************************************************)
\* C34: the frame-start timestamp of an animated active entity is never
\* later than the current tick count, so that curr_ticks minus the
\* timestamp does not wrap around.
C34_FrameStartNotInFuture ==
    \A e \in s_gs.active :
      ENTITY_FLAG_ANIMATED \in entities[e].flags
        => entities[e].ctx.curr_frame_start_ticks <= ticks

(***************************************************************************)
(* Properties of the entities drawn.                                       *)
(***************************************************************************)
\* C35: no command that G_Render has enqueued refers to an entity that has
\* the invisible or the zombie flag when G_Render runs.
C35_NoHiddenEntityDrawn ==
    [][last_call' = "G_Render" =>
         LET cmds == s_gs'.ws[G_GetSimWS(s_gs')].commands IN
         \A i \in 1..Len(cmds) : \A a \in Range(cmds[i].args) :
             a.ent # 0 =>
               entities[a.ent].flags
                 \cap {ENTITY_FLAG_INVISIBLE, ENTITY_FLAG_ZOMBIE} = {}]_vars

(***************************************************************************)
(* Properties of the events enqueued during E_ServiceQueue.                *)
(***************************************************************************)
\* C36, as claimed: the event queue is empty whenever E_ServiceQueue
\* returns.
C36_QueueEmptyAfterService ==
    [][last_call' = "E_ServiceQueue" => s_event_queue' = <<>>]_vars

\* C36, amended: of the events queued before the call and enqueued during
\* it, in that order, E_ServiceQueue dispatches between update-start and
\* update-ui all but those that the handlers of update-ui and update-end
\* enqueue; these are what the queue holds when the call returns, at most
\* one for each call of such a handler, and the queue is empty if no such
\* handler has run.
C36_LateEventsStayQueued ==
    [][last_call' = "E_ServiceQueue" =>
         LET n == Len(dlog')
             all == s_event_queue \o enq'
             late == {i \in 1..Len(hlog') : hlog'[i].d >= n - 1}
         IN /\ dlog'[n - 1] = Event(EVENT_UPDATE_UI, NULL, ES_ENGINE, GLOBAL_ID)
            /\ dlog'[n] = Event(EVENT_UPDATE_END, NULL, ES_ENGINE, GLOBAL_ID)
            /\ Len(all) >= n - 3
            /\ SubSeq(dlog', 2, n - 2) = SubSeq(all, 1, n - 3)
            /\ s_event_queue' = SubSeq(all, n - 2, Len(all))
            /\ Len(s_event_queue') <= Cardinality(late)
            /\ \A i \in late : hlog'[i].event \in {EVENT_UPDATE_UI, EVENT_UPDATE_END}]_vars

\* E_ServiceQueue has just returned with an event in the queue that a
\* handler of update-end enqueued, after dispatching a queued event
C36_Witness ==
    /\ last_call = "E_ServiceQueue"
    /\ s_event_queue # <<>>
    /\ Len(dlog) >= 4
    /\ \E i \in 1..Len(hlog) : hlog[i].event = EVENT_UPDATE_END

\* C37: every entity is released at most once (no entity is passed to
\* AL_EntityFree twice by the swaps that follow any sequence of G_SafeFree
\* and game resets), and the deferred-free list is empty after every
\* G_SwapBuffers.
C37_EntityReleasedAtMostOnce ==
    /\ \A e \in Ents : entities[e].mem # "double_freed"
    /\ last_call = "G_SwapBuffers" => s_gs.deleted = <<>>

\* The sample index of the context lies within its active clip
FrameWithinClip(ctx) ==
    ctx.active # NULL =>
        /\ 0 <= ctx.curr_frame
        /\ ctx.curr_frame < AnimClips[ctx.active].num_frames

\* C38: for every animation context with an active clip,
\* 0 <= curr_frame < num_frames of the active clip, in every state and after
\* every A_InitCtx, A_SetActiveClip, A_Update and A_AddTimeDelta that can be
\* called in it, so the sample that A_GetRenderState and A_GetCurrPoseAABB
\* read is a sample of the clip.
C38_FrameIndexWithinClip ==
    ~aborted =>
        \A e \in Ents :
            ENTITY_FLAG_ANIMATED \in entities[e].flags =>
                /\ FrameWithinClip(entities[e].ctx)
                /\ FrameWithinClip(A_Update(World, e).ent[e].ctx)
                /\ \A dt \in TickMenu :
                       FrameWithinClip(A_AddTimeDelta(World, e, dt).ent[e].ctx)
                /\ \A name \in ClipNameMenu, key_fps \in KeyFpsMenu :
                       /\ FrameWithinClip(
                              A_InitCtx(World, e, name, key_fps).ent[e].ctx)
                       /\ \A mode \in AnimModes :
                              FrameWithinClip(
                                  A_SetActiveClip(World, e, name, mode,
                                                  key_fps).ent[e].ctx)

C38_Witness ==
    /\ last_call = "A_Update"
    /\ ~aborted
    /\ \E e \in Ents :
        /\ ENTITY_FLAG_ANIMATED \in entities[e].flags
        /\ AnimClips[entities[e].ctx.active].name = "attack"
        /\ entities[e].ctx.curr_frame = AnimClips[entities[e].ctx.active].num_frames - 1

\* C39: while the simulation state is not running, G_Update changes no
\* animation context and queues no event; G_SetSimState to the state already
\* in force changes nothing and queues no event; a G_SetSimState that changes
\* the state queues exactly one EVENT_GAME_SIMSTATE_CHANGED, whose argument is
\* the new state.
C39_PausedUpdateAndSimStateEvents ==
    [][/\ (last_call' = "G_Update" /\ s_gs.ss # G_RUNNING) =>
              /\ \A e \in Ents : entities'[e].ctx = entities[e].ctx
              /\ enq' = <<>>
              /\ s_event_queue' = s_event_queue
       /\ (last_call' = "G_SetSimState" /\ s_gs'.ss = s_gs.ss) =>
              /\ s_gs' = s_gs
              /\ entities' = entities
              /\ enq' = <<>>
              /\ s_event_queue' = s_event_queue
       /\ (last_call' = "G_SetSimState" /\ s_gs'.ss # s_gs.ss) =>
              /\ enq' = <<Event(EVENT_GAME_SIMSTATE_CHANGED, s_gs'.ss,
                                ES_ENGINE, GLOBAL_ID)>>
              /\ s_event_queue' = Append(s_event_queue, enq'[1])]_vars

C39_Witness ==
    /\ last_call = "G_Update"
    /\ ~aborted
    /\ s_gs.ss # G_RUNNING
    /\ \E i \in 1..Len(s_event_queue) :
           /\ s_event_queue[i].type = EVENT_GAME_SIMSTATE_CHANGED
           /\ s_event_queue[i].arg = s_gs.ss
    /\ \E e \in s_gs.active :
           /\ ENTITY_FLAG_ANIMATED \in entities[e].flags
           /\ FramePeriodElapsed(ticks, entities[e].ctx.curr_frame_start_ticks,
                                 entities[e].ctx.key_fps)

\* C40: G_NewGameWithMap and G_NewGameWithMapString queue EVENT_NEW_GAME
\* exactly when they return true; when they return false the map pointer and
\* the pointer to the previous-tick copy are both null; after either return
\* the active and the dynamic set are empty and the faction count is 0.
C40_NewGameEventAndCleanFailure ==
    [][\A name \in {"G_NewGameWithMap", "G_NewGameWithMapString"} :
          /\ last_call' = name =>
                 enq' = <<Event(EVENT_NEW_GAME, NULL, ES_ENGINE, GLOBAL_ID)>>
          /\ last_call' = Refused(name) =>
                 /\ enq' = <<>>
                 /\ s_gs'.map = NULL
                 /\ s_gs'.prev_tick_map = NULL
          /\ last_call' \in {name, Refused(name)} =>
                 /\ s_gs'.active = {}
                 /\ s_gs'.dynamic = {}
                 /\ s_gs'.num_factions = 0]_vars

====
